---- MODULE Spec2Model ----
(***************************************************************************)
(* Cluster-control plane of the WSN node firmware: neighbor table, replay  *)
(* table, STELLAR election and the node state machine.                      *)
(*                                                                         *)
(* Numbers: ratios (battery, trust, link quality, beacon score) are kept   *)
(* as integers scaled by 10000, the scale the beacon itself uses on the     *)
(* wire; utilities and scores are scaled by 1000000; times are             *)
(* milliseconds of the monotonic clock (esp_timer_get_time() / 1000).      *)
(***************************************************************************)
EXTENDS Integers, Sequences, FiniteSets, TLC

VARIABLES
  now,                    \* esp_timer_get_time() / 1000 of the node booted at 0
  boot_at,                \* [node -> clock value at which it boots, -1: never]
  halt_at,                \* [node -> clock value at which it lost power, -1: not]
  g_current_state,        \* [node -> state]            state_machine.c:74
  g_is_ch,                \* [node -> BOOLEAN]          state_machine.c:75
  state_entry_time,       \* [node -> ms]               state_machine.c:82
  election_window_start,  \* [node -> ms]               election.c:12
  member_ble_started,     \* [node -> BOOLEAN]          state_machine.c:357
  neighbor_table,         \* [node -> Seq(entry)]       neighbor_manager.c:14
  current_metrics,        \* [node -> metrics record]   metrics.c
  ble_ready,              \* [node -> BOOLEAN]          ble_manager.c:22
  scanning,               \* [node -> BOOLEAN]          ble_manager.c
  advertising,            \* [node -> BOOLEAN]          ble_manager.c
  adv_packet,             \* [node -> beacon payload]   ble_manager.c:431
  pc,                     \* [node -> position of state_machine_task]
  tr,                     \* [node -> the transition state_machine_run is making]
  console_pc,             \* [node -> position of console_config_task]
  ticked,                 \* [node -> state_machine_run ran in this clock period]
  heard,                  \* [node -> a beacon was received in this clock period]
  tick_info,              \* [node -> what the last state_machine_run decided]
  became,                 \* [node -> the roles it has taken since the last power loss]
  uav_runs,               \* onboarding runs triggered so far (console or RF)
  env_events,             \* events of the environment so far
  ch_result,              \* result of the last status query of current_ch()
  ch_fresh,               \* table and clock unchanged since that query
  trust_updates,          \* number of delivery results reported so far
  replay_table,           \* Seq([node_id, last_timestamp])  auth.c:18
  replay_log,             \* history of auth_check_replay calls
  rx_log,                 \* the last advertisement handed to ble_gap_event
  rx_reports,             \* per peer, its sequence numbers and the missed counts reported
  rx_authentic,           \* ids whose beacons have passed the HMAC comparison
  election_self,          \* g_node_id of the node that runs the election
  election_metrics,       \* its current_metrics, fixed    metrics.c:25
  election_snapshot,      \* neighbor_manager_get_all      election.c:246
  g_stellar_weights,      \* weights and variance trackers metrics.c:418-432
  election_log,           \* one record per call of election_run
  last_schedule_broadcast,\* of the CH, ms                 state_machine.c:320
  sched_round,            \* the Schedule messages of the CH's last round
  current_schedule,       \* the schedule the member has cached
  last_data_send,         \* of the member, ms             state_machine.c:404
  slot_log,               \* what the member's last tick decided about its slot
  sched_ticked,           \* who has run in this clock period
  s_bb,                   \* the block buffer             logger.c:85
  s_flush_mutex,          \* its holder, or "free"        logger.c:87
  log_files,              \* the current, old and backup log files on SPIFFS
  spiffs,                 \* size of the partition and the bytes other files use
  log_task,               \* [task -> position in logger_append_line / logger_flush]
  log_hist,               \* what the logger calls of the behaviour did so far
  huf,                    \* a byte string, its Huffman frame and what was restored
  upt,                    \* the uptime counter: timer, NVS blob, uptime_seconds
  weight_log,             \* the updates of the adaptive weights so far
  nbr,                    \* neighbor_table[] as memory, and the callers holding pointers
  snap,                   \* neighbor_mutex, the table, and an election run's copy of it
  ch_conflict             \* two cluster heads in conflict and what their checks said

smVars     == <<g_current_state, g_is_ch, state_entry_time, election_window_start,
                member_ble_started, pc, tr, console_pc, ticked, tick_info, became>>
bleVars    == <<ble_ready, scanning, advertising, adv_packet, heard>>
tableVars  == <<neighbor_table, ch_result, ch_fresh, trust_updates>>
envVars    == <<boot_at, halt_at, current_metrics, uav_runs, env_events>>
replayVars == <<replay_table, replay_log>>
rxVars     == <<rx_log, rx_reports, rx_authentic>>
elVars     == <<election_self, election_metrics, election_snapshot,
                g_stellar_weights, election_log>>
schedVars  == <<last_schedule_broadcast, sched_round, current_schedule,
                last_data_send, slot_log, sched_ticked>>
logVars    == <<s_bb, s_flush_mutex, log_files, spiffs, log_task, log_hist>>
concVars   == <<nbr, snap, ch_conflict>>
compVars   == <<logVars, huf, upt, weight_log, concVars>>
extVars    == <<rxVars, elVars, schedVars, compVars>>
vars       == <<now, smVars, bleVars, tableVars, envVars, replayVars, extVars>>

----------------------------------------------------------------------------
(* Program constants                                                        *)

MAX_NEIGHBORS         == 10
ELECTION_WINDOW_MS    == 10000
NEIGHBOR_TIMEOUT_MS   == 20000
CH_BEACON_TIMEOUT_MS  == 10000
CLUSTER_RADIUS_RSSI_THRESHOLD == -85
TRUST_FLOOR           == 2000
BATTERY_LOW_THRESHOLD == 2000
LINK_QUALITY_FLOOR    == 2000
VERIFY_TRUST          == 3000
INIT_SETTLE_MS        == 2000   \* "now_ms - state_entry_time > 2000"
DISCOVER_WINDOW_MS    == 5000   \* "now_ms - state_entry_time < 5000"
DISCOVER_MIN_MS       == 2000   \* "(now_ms - state_entry_time) >= 2000"
REPLAY_WINDOW_MS      == 60000
MAX_REPLAY_ENTRIES    == 20

(* Bounds of the model                                                      *)

Quantum          == 1000     \* clock period of state_machine_task in the model
MaxTime          == 20000    \* the clock of Spec stops here
TableClockSteps  == 2        \* clock steps (of CH_BEACON_TIMEOUT_MS) of SpecTable
MaxTrustUpdates  == 1        \* delivery results reported in a behaviour
NumFillers       == 9        \* further peers of a dense neighbourhood
ReplayClockSteps == 2        \* clock steps (of REPLAY_WINDOW_MS) of SpecReplay
NumReplayNodes   == 21       \* senders seen by the replay check

Node      == {100, 200}
ReplayedNodes == {1}         \* senders whose deliveries are repeated
SELF      == CHOOSE n \in Node : \A m \in Node : n <= m
MaxEnvEvents     == 2        \* events of the environment of Spec in a behaviour
S2MaxTime        == 80000    \* the clock of SpecS2 stops here
MaxRx            == 4        \* advertisements handed to the scan callback in SpecRx
RxClockSteps     == 2        \* clock periods of SpecRx
MaxElectionPeers == 2        \* neighbors in the snapshot of SpecElection
MaxElectionRuns  == 3        \* calls of election_run on one snapshot
MaxSchedPeers    == 2        \* neighbors in the table of the scheduling CH
MaxSchedRounds   == 2        \* scheduling rounds of the CH in SpecSched
MaxAppends       == 3        \* lines handed to logger_append_line in SpecLog
MaxFlushCalls    == 2        \* calls of logger_flush by its users in SpecLog
MaxHufLen        == 5        \* bytes of a string handed to the Huffman codec
UptimeMaxTime    == 150000   \* the timer of SpecUptime stops here
MaxReboots       == 1        \* reboots in SpecUptime
MaxWeightUpdates == 5        \* updates of the adaptive weights in SpecWeights
PtrSlots         == 2        \* slots of neighbor_table[] in SpecPtr
MaxPtrBeacons    == 3        \* beacons in SpecPtr
MaxPtrCalls      == 2        \* lookups that return a pointer in SpecPtr
PtrMaxTime       == 40000    \* the clock of SpecPtr stops here
MaxSnapBeacons   == 3        \* beacons the BLE host task stores in SpecSnap
MaxSnapRuns      == 2        \* election runs in SpecSnap
SchedMaxTime     == 80000    \* the clock of SpecSched stops here

STATE_INIT           == "INIT"
STATE_DISCOVER       == "DISCOVER"
STATE_CANDIDATE      == "CANDIDATE"
STATE_CH             == "CH"
STATE_MEMBER         == "MEMBER"
STATE_UAV_ONBOARDING == "UAV_ONBOARDING"
STATE_SLEEP          == "SLEEP"

----------------------------------------------------------------------------
(* Neighbor table (neighbor_manager.c).  Every public operation runs with   *)
(* neighbor_mutex held from its first to its last access of the table, so   *)
(* each one is a single atomic step on the table.                           *)

RECURSIVE FindFrom(_, _, _)
FindFrom(tbl, id, i) ==
  IF i > Len(tbl) THEN 0
  ELSE IF tbl[i].node_id = id THEN i
  ELSE FindFrom(tbl, id, i + 1)

\* a mutant of the search: the lookup misses an entry that is not the first
MutFindEntry(tbl, id) ==
  IF Len(tbl) > 0 /\ tbl[1].node_id = id THEN 1 ELSE 0

\* the linear search "for (i = 0; i < neighbor_count; i++) if (node_id == ...)"
FindEntry(tbl, id) == FindFrom(tbl, id, 1)

\* RSSI_EWMA_ALPHA = 0.2:  alpha * rssi + (1 - alpha) * ewma
RssiEwma(old, rssi) ==
  IF old = 0 THEN rssi ELSE (2 * rssi + 8 * old) \div 10

NewEntry(now_ms, node_id, rssi, score, battery, trust, link_quality, is_ch, seq_num) ==
  [ node_id |-> node_id, rssi_ewma |-> rssi, score |-> score,
    battery |-> battery, trust |-> trust, link_quality |-> link_quality,
    last_seen_ms |-> now_ms, is_ch |-> is_ch,
    ch_announce_timestamp |-> IF is_ch THEN now_ms ELSE 0,
    verified |-> TRUE, last_seq_num |-> seq_num ]

RefreshEntry(e, now_ms, rssi, score, battery, trust, link_quality, is_ch, seq_num) ==
  [ e EXCEPT !.last_seq_num = seq_num,
             !.rssi_ewma = RssiEwma(e.rssi_ewma, rssi),
             !.score = score, !.battery = battery, !.trust = trust,
             !.link_quality = link_quality, !.last_seen_ms = now_ms,
             !.is_ch = is_ch,
             !.ch_announce_timestamp =
                 IF is_ch THEN now_ms ELSE e.ch_announce_timestamp,
             !.verified = TRUE ]

neighbor_manager_update(tbl, now_ms, node_id, rssi, score, battery, trust, link_quality, is_ch, seq_num) ==
  LET i == FindEntry(tbl, node_id) IN
  IF i > 0
    THEN [tbl EXCEPT ![i] = RefreshEntry(tbl[i], now_ms, rssi, score, battery,
                                         trust, link_quality, is_ch, seq_num)]
  ELSE IF Len(tbl) < MAX_NEIGHBORS
    THEN Append(tbl, NewEntry(now_ms, node_id, rssi, score, battery, trust,
                              link_quality, is_ch, seq_num))
  ELSE tbl

\* the compaction loop keeps, in order, the entries seen within the timeout
neighbor_manager_cleanup_stale(tbl, now_ms) ==
  SelectSeq(tbl, LAMBDA e : now_ms - e.last_seen_ms < NEIGHBOR_TIMEOUT_MS)

neighbor_manager_is_in_cluster(e) == e.rssi_ewma >= CLUSTER_RADIUS_RSSI_THRESHOLD

\* the test of neighbor_manager.c:269-272
\* a mutant of the test: the age of the CH announcement is not looked at
MutChQualifies(e, now_ms) ==
  /\ e.is_ch
  /\ e.verified
  /\ e.trust >= TRUST_FLOOR

ChQualifies(e, now_ms) ==
  /\ e.is_ch
  /\ e.verified
  /\ e.trust >= TRUST_FLOOR
  /\ now_ms - e.ch_announce_timestamp < CH_BEACON_TIMEOUT_MS

RECURSIVE ChScan(_, _, _, _, _)
ChScan(tbl, now_ms, i, best_ch, best_score) ==
  IF i > Len(tbl) THEN best_ch
  ELSE IF ChQualifies(tbl[i], now_ms) /\ tbl[i].score > best_score
    THEN ChScan(tbl, now_ms, i + 1, tbl[i].node_id, tbl[i].score)
  ELSE ChScan(tbl, now_ms, i + 1, best_ch, best_score)

\* best_ch = 0, best_score = -1.0f, then the scan with a strict comparison
neighbor_manager_get_current_ch(tbl, now_ms) == ChScan(tbl, now_ms, 1, 0, -1000000)

\* the first entry with is_ch, verified and a fresh announcement; the result
\* is the node whose mac_addr is copied out, 0 for "return false"
RECURSIVE ChMacScan(_, _, _)
ChMacScan(tbl, now_ms, i) ==
  IF i > Len(tbl) THEN 0
  ELSE IF /\ tbl[i].is_ch /\ tbl[i].verified
          /\ now_ms - tbl[i].ch_announce_timestamp < CH_BEACON_TIMEOUT_MS
    THEN tbl[i].node_id
  ELSE ChMacScan(tbl, now_ms, i + 1)

neighbor_manager_get_ch_mac(tbl, now_ms) == ChMacScan(tbl, now_ms, 1)

\* trust <- 0.9 * trust + 0.1 * (1 | 0); verified once trust > 0.3
neighbor_manager_update_trust(tbl, node_id, success) ==
  LET i == FindEntry(tbl, node_id) IN
  IF i = 0 THEN tbl
  ELSE LET t == (9 * tbl[i].trust + (IF success THEN 10000 ELSE 0)) \div 10
       IN [tbl EXCEPT ![i].trust = t,
                      ![i].verified = IF t > VERIFY_TRUST THEN TRUE ELSE @]

----------------------------------------------------------------------------
(* Replay table (auth.c).                                                   *)

\* "timestamp > now_ms + REPLAY_WINDOW_MS || timestamp < now_ms - REPLAY_WINDOW_MS"
\* on uint64_t: while now_ms < REPLAY_WINDOW_MS the difference wraps to
\* 2^64 - (REPLAY_WINDOW_MS - now_ms), which is above every timestamp a clock
\* of this model can produce, so the second comparison is then true.
OutsideWindow(timestamp, now_ms) ==
  \/ timestamp > now_ms + REPLAY_WINDOW_MS
  \/ IF now_ms >= REPLAY_WINDOW_MS
       THEN timestamp < now_ms - REPLAY_WINDOW_MS
       ELSE TRUE

RECURSIVE ReplayFindFrom(_, _, _)
ReplayFindFrom(tbl, id, i) ==
  IF i > Len(tbl) THEN 0
  ELSE IF tbl[i].node_id = id THEN i
  ELSE ReplayFindFrom(tbl, id, i + 1)

\* a mutant of the comparison with the recorded timestamp: "<" for "<="
MutIsReplay(timestamp, last_timestamp) == timestamp < last_timestamp

\* "if (timestamp <= replay_table[i].last_timestamp)"
IsReplay(timestamp, last_timestamp) == timestamp <= last_timestamp

\* the result of auth_check_replay: <<accepted, table afterwards>>
auth_check_replay(tbl, now_ms, timestamp, node_id) ==
  LET i == ReplayFindFrom(tbl, node_id, 1)
      e == [node_id |-> node_id, last_timestamp |-> timestamp] IN
  IF OutsideWindow(timestamp, now_ms) THEN <<FALSE, tbl>>
  ELSE IF i > 0 THEN
         IF IsReplay(timestamp, tbl[i].last_timestamp) THEN <<FALSE, tbl>>
         ELSE <<TRUE, [tbl EXCEPT ![i].last_timestamp = timestamp]>>
  ELSE IF Len(tbl) < MAX_REPLAY_ENTRIES THEN <<TRUE, Append(tbl, e)>>
  ELSE <<TRUE, Append(Tail(tbl), e)>>     \* memmove: evict the oldest entry

----------------------------------------------------------------------------
(* Metrics engine (metrics.c): the node's own metrics and the utilities.    *)

WEIGHT_BATTERY      == 30      \* percent
WEIGHT_UPTIME       == 20
WEIGHT_TRUST        == 30
WEIGHT_LINK_QUALITY == 20
UPTIME_MAX_SECONDS  == 604800  \* UPTIME_MAX_DAYS * 86400
DISAGREE            == 100000  \* DISAGREE_BATTERY = _UPTIME = _TRUST = _LINKQ = 0.1
REMOTE_CENTRALITY   == 8000    \* 0.8f, scaled by 10000
SCORE_TIE_BUFFER    == 10000   \* 0.01f, scaled by 1000000

\* the initializer of g_stellar_weights.weights, scaled by 1000000
StellarWeights ==
  <<WEIGHT_BATTERY * 10000, WEIGHT_UPTIME * 10000, WEIGHT_TRUST * 10000,
    WEIGHT_LINK_QUALITY * 10000>>

\* a * b of two values scaled by 1000000 (both at most 2000000), rounded down
MulMicro(a, b) ==
  LET a1 == a \div 1000  a0 == a % 1000
      b1 == b \div 1000  b0 == b % 1000
      mid == a1 * b0 + a0 * b1
  IN a1 * b1 + mid \div 1000 + ((mid % 1000) * 1000 + a0 * b0) \div 1000000

\* (1 - exp(-2 b)) / (1 - exp(-2)), at the battery levels of the model
stellar_utility_battery(b) ==
  CASE b = 1000 -> 209641 [] b = 5000 -> 731059 [] b = 9000 -> 965347
    [] b = 10000 -> 1000000

\* tanh(u): u itself for u < 0.01 (the first hours of uptime), tanh(1) at the clamp
stellar_utility_uptime(un) == IF un >= 1000000 THEN 761594 ELSE un

\* t * t * (3 - 2 t)
stellar_utility_trust(t) == (((t * t) \div 10000) * (30000 - 2 * t)) \div 100

\* l ^ (1 / UTILITY_GAMMA_L) = sqrt(l), at the link-quality levels of the model
stellar_utility_linkq(l) ==
  CASE l = 1000 -> 316228 [] l = 5000 -> 707107 [] l = 9000 -> 948683

\* uptime_seconds / (UPTIME_MAX_DAYS * 86400), clamped to 1
UptimeNorm(uptime_seconds) ==
  IF uptime_seconds >= UPTIME_MAX_SECONDS THEN 1000000
  ELSE (uptime_seconds * 625) \div 378

\* logf(surplus) for the surpluses the utilities above can leave
LogMicro(x) ==
  CASE x = 109641 -> -2210544 [] x = 216228 -> -1531422 [] x = 400000 -> -916291
    [] x = 607107 -> -499050  [] x = 631059 -> -460356  [] x = 661594 -> -413103
    [] x = 848683 -> -164070  [] x = 865347 -> -144625  [] x = 872000 -> -136966
    [] x = 900000 -> -105361

Utilities(battery, uptime_seconds, trust, link_quality) ==
  << stellar_utility_battery(battery),
     stellar_utility_uptime(UptimeNorm(uptime_seconds)),
     stellar_utility_trust(trust),
     stellar_utility_linkq(link_quality) >>

\* the parts of a * b for a and b split at 1000
HiPart(a, b)  == (a \div 1000) * (b \div 1000)
MidPart(a, b) == (a \div 1000) * (b % 1000) + (a % 1000) * (b \div 1000)
LoPart(a, b)  == (a % 1000) * (b % 1000)

\* sum of sw.weights[i] * utility[i], rounded down once
WeightedSum(sw, u) ==
  LET m  == MidPart(sw[1], u[1]) + MidPart(sw[2], u[2]) + MidPart(sw[3], u[3])
              + MidPart(sw[4], u[4])
      lo == LoPart(sw[1], u[1]) + LoPart(sw[2], u[2]) + LoPart(sw[3], u[3])
              + LoPart(sw[4], u[4])
  IN HiPart(sw[1], u[1]) + HiPart(sw[2], u[2]) + HiPart(sw[3], u[3])
       + HiPart(sw[4], u[4]) + m \div 1000 + ((m % 1000) * 1000 + lo) \div 1000000

\* Psi = base * 1 / (1 + 0.5 (1 - centrality)) + 0.1 * rank / 10
StellarScore(sw, u, pareto_rank, centrality) ==
  (WeightedSum(sw, u) * (20000000 \div (30000 - centrality))) \div 1000
    + 10000 * pareto_rank

\* uptime_seconds = base_uptime + seconds since boot  (metrics_update)
UptimeSeconds(m, now_ms) == m.base_uptime + now_ms \div 1000

\* composite_score = stellar_score with pareto_rank 0 and centrality 1.0; the
\* state machine is modelled with the weights at their initial values
metrics_compute_stellar_score(m, now_ms) ==
  StellarScore(StellarWeights, Utilities(m.battery, UptimeSeconds(m, now_ms), m.trust,
                         m.link_quality), 0, 10000)

----------------------------------------------------------------------------
(* Election (election.c)                                                    *)

SeqSum(s) == LET F[i \in 0..Len(s)] == IF i = 0 THEN 0 ELSE F[i-1] + s[i] IN F[Len(s)]

\* kappa = 1 - min(1, var(rssi_ewma) / 400), scaled by 10000; 1.0 when alone
compute_centrality(neighbors) ==
  LET n  == Len(neighbors)
      s1 == SeqSum([i \in 1..n |-> neighbors[i].rssi_ewma])
      s2 == SeqSum([i \in 1..n |-> neighbors[i].rssi_ewma * neighbors[i].rssi_ewma])
      nv == ((n * s2 - s1 * s1) * 25) \div (n * n)
  IN IF n = 0 THEN 10000 ELSE 10000 - (IF nv > 10000 THEN 10000 ELSE nv)

\* a mutant of the filter: the trust of the neighbor is not looked at
MutIsCandidate(e) ==
  /\ neighbor_manager_is_in_cluster(e)
  /\ e.verified

\* the filter of election.c:284-294
IsCandidate(e) ==
  /\ neighbor_manager_is_in_cluster(e)
  /\ e.verified
  /\ e.trust >= TRUST_FLOOR

SelfCandidate(self, m, now_ms, neighbors) ==
  [ node_id |-> self, is_self |-> TRUE,
    u |-> Utilities(m.battery, UptimeSeconds(m, now_ms), m.trust, m.link_quality),
    centrality |-> compute_centrality(neighbors) ]

NeighborCandidate(e) ==
  [ node_id |-> e.node_id, is_self |-> FALSE,
    u |-> Utilities(e.battery, 0, e.trust, e.link_quality),
    centrality |-> REMOTE_CENTRALITY ]

\* self first, then the admitted neighbors in table order
BuildCandidates(self, m, now_ms, neighbors) ==
  LET adm == SelectSeq(neighbors, IsCandidate) IN
  <<SelfCandidate(self, m, now_ms, neighbors)>>
     \o [i \in 1..Len(adm) |-> NeighborCandidate(adm[i])]

pareto_dominates(a, b) ==
  /\ \A i \in 1..4 : a.u[i] >= b.u[i]
  /\ \E i \in 1..4 : a.u[i] > b.u[i]

\* a mutant of the marking: i leaves the frontier when it dominates another
MutOnFrontier(c, i) == \A j \in 1..Len(c) : j = i \/ ~pareto_dominates(c[i], c[j])

\* pareto_rank and on_pareto_frontier of candidate i
ParetoRank(c, i) == Cardinality({j \in 1..Len(c) : j # i /\ pareto_dominates(c[i], c[j])})
OnFrontier(c, i) == \A j \in 1..Len(c) : j = i \/ ~pareto_dominates(c[j], c[i])

NashValid(cand) == \A j \in 1..4 : cand.u[j] - DISAGREE > 0
\* sum of sw.weights[j] * logf(surplus_j); every logarithm here is negative
NashProduct(sw, cand) ==
  0 - ( MulMicro(sw[1], 0 - LogMicro(cand.u[1] - DISAGREE))
         + MulMicro(sw[2], 0 - LogMicro(cand.u[2] - DISAGREE))
         + MulMicro(sw[3], 0 - LogMicro(cand.u[3] - DISAGREE))
         + MulMicro(sw[4], 0 - LogMicro(cand.u[4] - DISAGREE)) )

\* "if (ok && value > max) { max = value; winner = node_id; }" from i on
RECURSIVE ArgMaxScan(_, _, _, _, _, _)
ArgMaxScan(c, ok, val, i, winner, max) ==
  IF i > Len(c) THEN winner
  ELSE IF ok[i] /\ val[i] > max
    THEN ArgMaxScan(c, ok, val, i + 1, c[i].node_id, val[i])
  ELSE ArgMaxScan(c, ok, val, i + 1, winner, max)

nash_bargaining_selection(sw, c) ==
  LET ok  == [i \in 1..Len(c) |-> OnFrontier(c, i) /\ NashValid(c[i])]
      val == [i \in 1..Len(c) |-> IF ok[i] THEN NashProduct(sw, c[i]) ELSE 0]
  IN ArgMaxScan(c, ok, val, 1, 0, -1000000000)

CandidateScore(sw, c, i) ==
  StellarScore(sw, c[i].u, ParetoRank(c, i), c[i].centrality)

\* the selection of election.c:324-396 among the candidates c under weights sw
SelectWinner(sw, c) ==
  LET frontier == [i \in 1..Len(c) |-> OnFrontier(c, i)]
      all      == [i \in 1..Len(c) |-> TRUE]
      score    == [i \in 1..Len(c) |-> CandidateScore(sw, c, i)]
      w1 == nash_bargaining_selection(sw, c)
      w2 == IF w1 # 0 THEN w1 ELSE ArgMaxScan(c, frontier, score, 1, 0, -1000000000)
  IN IF w2 # 0 THEN w2 ELSE ArgMaxScan(c, all, score, 1, 0, -1000000000)

\* sw: g_stellar_weights.weights as metrics_update_stellar_weights left them
election_run_stellar(sw, self, m, now_ms, neighbors) ==
  SelectWinner(sw, BuildCandidates(self, m, now_ms, neighbors))

\* election_in_progress is false whenever state_machine_task calls it; the
\* state machine is modelled with the weights at their initial values
election_run(self, m, now_ms, neighbors) ==
  election_run_stellar(StellarWeights, self, m, now_ms, neighbors)

\* the CH branch of election_check_reelection_needed
\* a mutant of the tie-break: the higher id wins a tie
RECURSIVE MutConflictScan(_, _, _, _)
MutConflictScan(neighbors, self, self_score, i) ==
  IF i > Len(neighbors) THEN FALSE
  ELSE LET e == neighbors[i]
           score_diff == e.score - self_score IN
       IF e.is_ch /\ e.verified
            /\ (score_diff > SCORE_TIE_BUFFER
                 \/ (score_diff >= -SCORE_TIE_BUFFER /\ e.node_id > self))
         THEN TRUE
       ELSE MutConflictScan(neighbors, self, self_score, i + 1)

\* a mutant of the tie-break: on a tie the node stays, whatever the ids
RECURSIVE MutConflictScanNoTie(_, _, _, _)
MutConflictScanNoTie(neighbors, self, self_score, i) ==
  IF i > Len(neighbors) THEN FALSE
  ELSE LET e == neighbors[i]
           score_diff == e.score - self_score IN
       IF e.is_ch /\ e.verified /\ score_diff > SCORE_TIE_BUFFER
         THEN TRUE
       ELSE MutConflictScanNoTie(neighbors, self, self_score, i + 1)

RECURSIVE ConflictScan(_, _, _, _)
ConflictScan(neighbors, self, self_score, i) ==
  IF i > Len(neighbors) THEN FALSE
  ELSE LET e == neighbors[i]
           score_diff == e.score - self_score IN
       IF e.is_ch /\ e.verified
            /\ (score_diff > SCORE_TIE_BUFFER
                 \/ (score_diff >= -SCORE_TIE_BUFFER /\ e.node_id < self))
         THEN TRUE
       ELSE ConflictScan(neighbors, self, self_score, i + 1)

ChReelection(self, m, self_score, neighbors) ==
  \/ m.battery < BATTERY_LOW_THRESHOLD
  \/ m.trust < TRUST_FLOOR
  \/ m.link_quality < LINK_QUALITY_FLOOR
  \/ ConflictScan(neighbors, self, self_score, 1)

\* the member branch: no current CH, or the CH entry is unhealthy
MemberReelection(neighbors, now_ms) ==
  LET current_ch == neighbor_manager_get_current_ch(neighbors, now_ms)
      i == FindEntry(neighbors, current_ch) IN
  \/ current_ch = 0
  \/ i = 0
  \/ neighbors[i].battery < BATTERY_LOW_THRESHOLD
  \/ neighbors[i].trust < TRUST_FLOOR
  \/ neighbors[i].link_quality < LINK_QUALITY_FLOOR

election_check_reelection_needed(is_ch, self, m, self_score, neighbors, now_ms) ==
  IF is_ch THEN ChReelection(self, m, self_score, neighbors)
  ELSE MemberReelection(neighbors, now_ms)

----------------------------------------------------------------------------
(* Initial values of the parts of the state                                 *)

Healthy == [battery |-> 9000, trust |-> 9000, link_quality |-> 9000, base_uptime |-> 0]

\* uav_from: the state from which UAV onboarding was last entered
NoRole == [ch |-> FALSE, member |-> FALSE, uav_from |-> "NONE"]

NoTick == [st |-> "NONE", at |-> 0, elapsed |-> 0, winner |-> 0, cur_ch |-> 0,
           ran |-> FALSE, reelect |-> FALSE, gate |-> FALSE, target |-> "NONE",
           reset |-> FALSE]

NoTransition == [new_state |-> "NONE", pre |-> "none", reset |-> FALSE, adv |-> FALSE]

NoPacket == [score |-> 0, battery |-> 0, trust |-> 0, link_quality |-> 0, is_ch |-> FALSE]

NoCall == [called |-> FALSE, node_id |-> 0, timestamp |-> 0, now_ms |-> 0,
           accepted |-> FALSE, dup |-> FALSE, recorded |-> FALSE,
           had_entry |-> FALSE, prev_ts |-> 0]

SmInit ==
  /\ g_current_state = [n \in Node |-> STATE_INIT]
  /\ g_is_ch = [n \in Node |-> FALSE]
  /\ state_entry_time = [n \in Node |-> IF boot_at[n] > 0 THEN boot_at[n] ELSE 0]
  /\ election_window_start = [n \in Node |-> 0]
  /\ member_ble_started = [n \in Node |-> FALSE]
  /\ pc = [n \in Node |-> "idle"]
  /\ tr = [n \in Node |-> NoTransition]
  /\ console_pc = [n \in Node |-> "idle"]
  /\ ticked = [n \in Node |-> FALSE]
  /\ tick_info = [n \in Node |-> NoTick]
  /\ became = [n \in Node |-> NoRole]

BleInit ==
  /\ ble_ready = [n \in Node |-> FALSE]
  /\ scanning = [n \in Node |-> FALSE]
  /\ advertising = [n \in Node |-> FALSE]
  /\ adv_packet = [n \in Node |-> NoPacket]
  /\ heard = [n \in Node |-> FALSE]

TableInit ==
  /\ neighbor_table = [n \in Node |-> <<>>]
  /\ ch_result = 0
  /\ ch_fresh = FALSE
  /\ trust_updates = 0

EnvInit ==
  /\ halt_at = [n \in Node |-> -1]
  /\ current_metrics = [n \in Node |-> Healthy]
  /\ uav_runs = 0
  /\ env_events = 0

NoRxPacket == [node_id |-> 0, score |-> 0, battery |-> 0, trust |-> 0,
               link_quality |-> 0, is_ch |-> FALSE, seq_num |-> 0, hmac |-> 0]

NoRx == [count |-> 0, pkt |-> NoRxPacket, valid |-> FALSE, again |-> FALSE,
         before |-> <<>>, known |-> FALSE, last_seq |-> 0, reported |-> FALSE,
         missed |-> 0, seen |-> {}]

RxInit ==
  /\ rx_log = NoRx
  /\ rx_reports = <<>>
  /\ rx_authentic = {}

\* metrics.c:418-432: the weights, the EWMA variances of battery, trust and
\* link quality (0.01f, scaled by 100000000) and the previous readings (0.5f)
WeightsInit ==
  [ weights |-> StellarWeights,
    variance |-> <<1000000, 1000000, 1000000>>,
    prev |-> <<5000, 5000, 5000>> ]

ElInit ==
  /\ election_self = SELF
  /\ election_metrics = Healthy
  /\ election_snapshot = <<>>
  /\ g_stellar_weights = WeightsInit
  /\ election_log = <<>>

NoSchedule == [magic |-> FALSE, epoch |-> 0, slot_index |-> 0, slot_duration_sec |-> 0]

NoRound == [count |-> 0, at |-> 0, snapshot |-> <<>>, msgs |-> <<>>]

NoSlot == [ran |-> FALSE, payload_fresh |-> FALSE, payload_in_slot |-> FALSE,
           can_send |-> FALSE, burst_fresh |-> FALSE, burst_in_slot |-> FALSE]

SchedInit ==
  /\ last_schedule_broadcast = 0
  /\ sched_round = NoRound
  /\ current_schedule = NoSchedule
  /\ last_data_send = 0
  /\ slot_log = NoSlot
  /\ sched_ticked = [ch |-> FALSE, member |-> FALSE]

\* a file that does not exist
NoFile == [exists |-> FALSE, base |-> 0, size |-> 0, chunks |-> <<>>]

LogTask == {"app", "aux"}

NoLine == [id |-> 0, n |-> 0, packed |-> 0]

IdleTask == [stage |-> "idle", line |-> NoLine, cont |-> "none", fr |-> "ESP_OK"]

NoFiles == [current |-> NoFile, old |-> NoFile, backup |-> NoFile]

NoWrite ==
  [ valid |-> FALSE, flush |-> FALSE, before |-> NoFiles, after |-> NoFiles,
    raw_len |-> 0, packed |-> 0, lines |-> <<>> ]

NoClear == [valid |-> FALSE, backup_existed |-> FALSE, old_existed |-> FALSE, pct |-> 0]

NoAppend ==
  [ valid |-> FALSE, id |-> 0, critical |-> FALSE, done |-> FALSE, ret |-> "ESP_OK",
    backup_left |-> FALSE, old_left |-> FALSE ]

\* no call has been made yet
NoHistory ==
  [ written |-> <<>>, oversize |-> {}, appended |-> 0, flush_calls |-> 0,
    last_write |-> NoWrite, last_clear |-> NoClear, last_append |-> NoAppend ]

\* logger_init on an empty partition: blockbuf_init, xSemaphoreCreateMutex
LogInit ==
  /\ s_bb = [len |-> 0, packed |-> 0, lines |-> <<>>]
  /\ s_flush_mutex = "free"
  /\ log_files = NoFiles
  /\ spiffs = [total |-> 0, other |-> 0]
  /\ log_task = [t \in LogTask |-> IdleTask]
  /\ log_hist = NoHistory

HufIdle == [stage |-> "input", in |-> <<>>, frame |-> [err |-> "ESP_OK"],
            out |-> [err |-> "ESP_OK"]]

UptimeIdle == [nvs |-> 0, loaded |-> 0, timer_ms |-> 0, uptime_seconds |-> 0,
               last_uptime_save |-> 0, updated |-> FALSE, at |-> 0, saves |-> 0,
               boots |-> 0]

NoWeightUpdate == [updates |-> 0, ticks |-> 0, by |-> "none", prior |-> <<0, 0, 0, 0>>]

\* a slot of the static array neighbor_table[] before its first use
ZeroEntry == [NewEntry(0, 0, 0, 0, 0, 0, 0, FALSE, 0) EXCEPT !.verified = FALSE]

NoPointer == [pc |-> "idle", looked_up |-> 0, ptr |-> 0]

NbrIdle ==
  [ neighbor_table |-> [i \in 1..PtrSlots |-> ZeroEntry], neighbor_count |-> 0,
    hc |-> NoPointer, cb |-> NoPointer, beacons |-> 0, calls |-> 0,
    last_hc |-> [valid |-> FALSE, looked_up |-> 0, read_from |-> 0, reelect |-> FALSE],
    last_cb |-> [valid |-> FALSE, looked_up |-> 0, updated |-> 0, present |-> FALSE] ]

\* neighbor_manager_init: an empty table, the mutex created and free
SnapIdle ==
  [ neighbor_table |-> <<>>, neighbor_mutex |-> "free", pending |-> <<>>,
    el |-> "idle", copy |-> <<>>, timed_out |-> FALSE, existed |-> {},
    beacons |-> 0, runs |-> 0,
    last |-> [valid |-> FALSE, used |-> <<>>, existed |-> {}, timed_out |-> FALSE,
              winner |-> 0] ]

\* no two cluster heads are being looked at
NoConflict == [stage |-> "none"]

ConcInit == nbr = NbrIdle /\ snap = SnapIdle /\ ch_conflict = NoConflict

CompInit == LogInit /\ huf = HufIdle /\ upt = UptimeIdle /\ weight_log = NoWeightUpdate
              /\ ConcInit

ExtInit == RxInit /\ ElInit /\ SchedInit /\ CompInit

ReplayInit ==
  /\ replay_table = <<>>
  /\ replay_log = [last |-> NoCall, accepted |-> {}, recorded |-> {}, introduced |-> 0]

----------------------------------------------------------------------------
(* SpecReplay: auth_check_replay under deliveries and a running clock.      *)

ReplayTimestamps == {k * REPLAY_WINDOW_MS : k \in 0..ReplayClockSteps}

\* one call auth_check_replay(timestamp, node_id) at the current clock.
\* New senders appear in ascending order of id; the senders in ReplayedNodes
\* repeat deliveries with any timestamp, the others deliver once, stamped with
\* the clock.  The history is kept for the senders in ReplayedNodes.
ReplayDeliver(node_id, timestamp) ==
  LET r       == auth_check_replay(replay_table, now, timestamp, node_id)
      evicted == IF r[1] /\ ReplayFindFrom(replay_table, node_id, 1) = 0
                      /\ Len(replay_table) = MAX_REPLAY_ENTRIES
                   THEN replay_table[1].node_id ELSE 0
      isnew   == r[1] /\ node_id = replay_log.introduced + 1
      kept    == {p \in replay_log.recorded : p[1] # evicted}
      hist    == IF r[1] /\ node_id \in ReplayedNodes
                   THEN {<<node_id, timestamp>>} ELSE {}
  IN
  /\ node_id <= replay_log.introduced + 1
  /\ node_id \notin ReplayedNodes =>
       timestamp = now /\ node_id = replay_log.introduced + 1
  /\ replay_table' = r[2]
  /\ replay_log' =
       [ last |-> [called |-> TRUE, node_id |-> node_id, timestamp |-> timestamp,
                   now_ms |-> now, accepted |-> r[1],
                   dup |-> <<node_id, timestamp>> \in replay_log.accepted,
                   recorded |-> <<node_id, timestamp>> \in replay_log.recorded,
                   had_entry |-> ReplayFindFrom(replay_table, node_id, 1) > 0,
                   prev_ts |->
                     IF ReplayFindFrom(replay_table, node_id, 1) > 0
                       THEN replay_table[ReplayFindFrom(replay_table, node_id, 1)]
                              .last_timestamp
                     ELSE 0],
         accepted |-> replay_log.accepted \cup hist,
         recorded |-> kept \cup hist,
         introduced |-> IF isnew THEN node_id ELSE replay_log.introduced ]
  /\ UNCHANGED <<now, smVars, bleVars, tableVars, envVars, extVars>>

ReplayAdvance ==
  /\ now < ReplayClockSteps * REPLAY_WINDOW_MS
  /\ now' = now + REPLAY_WINDOW_MS
  /\ UNCHANGED <<smVars, bleVars, tableVars, envVars, replayVars, extVars>>

InitReplay ==
  /\ now = 0
  /\ boot_at = [n \in Node |-> -1]
  /\ SmInit /\ BleInit /\ TableInit /\ EnvInit /\ ReplayInit /\ ExtInit

NextReplay ==
  \/ \E node_id \in 1..NumReplayNodes, timestamp \in ReplayTimestamps \cup {now} :
       ReplayDeliver(node_id, timestamp)
  \/ ReplayAdvance

SpecReplay == InitReplay /\ [][NextReplay]_vars

\* C10 (as stated): every delivery whose (node_id, timestamp) equals that of an
\* earlier accepted delivery is rejected, and every delivery whose timestamp is
\* older than now - REPLAY_WINDOW_MS is rejected.
ReplayAlwaysRejected ==
  replay_log.last.called =>
    /\ replay_log.last.dup => ~replay_log.last.accepted
    /\ replay_log.last.timestamp < replay_log.last.now_ms - REPLAY_WINDOW_MS
         => ~replay_log.last.accepted

\* C10 (amended): a delivery whose (node_id, timestamp) equals that of an earlier
\* accepted delivery is rejected as long as the sender's replay-table entry has
\* not been evicted since that acceptance, and every delivery whose timestamp is
\* older than now - REPLAY_WINDOW_MS is rejected.
ReplayRejectedWhileRecorded ==
  replay_log.last.called =>
    /\ replay_log.last.recorded => ~replay_log.last.accepted
    /\ replay_log.last.timestamp < replay_log.last.now_ms - REPLAY_WINDOW_MS
         => ~replay_log.last.accepted

\* C10 witness: a repeated delivery inside the window, its sender still in the
\* table, has been rejected.
ReplayDuplicateSeen ==
  /\ replay_log.last.called
  /\ replay_log.last.recorded
  /\ ~OutsideWindow(replay_log.last.timestamp, replay_log.last.now_ms)
  /\ ~replay_log.last.accepted

----------------------------------------------------------------------------
(* SpecTable: the neighbor table of one node under beacons, delivery        *)
(* results, stale cleanup, status queries and a running clock.              *)

Peers       == {200, 300}
Fillers     == {1000 + k : k \in 1..NumFillers}
PeerLevels  == {1000, 9000}
\* the beacons heard: peer 200 with every score and trust level of the model
\* (the score is the raw float of the packet: -2.0, 0.3, 0.7), peer 300 as a
\* cluster head with the higher score and trust
TableBeacons ==
  [node_id : {200}, rssi : {-60}, score : {-2000000, 300000, 700000},
   trust : PeerLevels,
   is_ch : BOOLEAN]
  \cup [node_id : {300}, rssi : {-60}, score : {700000}, trust : {9000},
        is_ch : {TRUE}]

SetTable(n, tbl) ==
  /\ neighbor_table' = [neighbor_table EXCEPT ![n] = tbl]
  /\ ch_result' = 0
  /\ ch_fresh' = FALSE

\* ble_manager.c:298 - a beacon that passed the checks of the scan callback
TableBeacon(node_id, rssi, score, trust, is_ch) ==
  /\ SetTable(SELF, neighbor_manager_update(neighbor_table[SELF], now, node_id, rssi,
                                            score, 9000, trust, 9000, is_ch, 0))
  /\ UNCHANGED <<now, smVars, bleVars, trust_updates, envVars, replayVars, extVars>>

RECURSIVE UpdateAll(_, _, _)
UpdateAll(tbl, now_ms, ids) ==
  IF ids = {} THEN tbl
  ELSE LET id == CHOOSE x \in ids : \A y \in ids : x <= y IN
       UpdateAll(neighbor_manager_update(tbl, now_ms, id, -60, 300000, 9000, 9000,
                                         9000, FALSE, 0),
                 now_ms, ids \ {id})

\* the beacons of a dense neighbourhood, all within the same millisecond
TableBurst ==
  /\ SetTable(SELF, UpdateAll(neighbor_table[SELF], now, Fillers))
  /\ UNCHANGED <<now, smVars, bleVars, trust_updates, envVars, replayVars, extVars>>

\* esp_now_manager.c:28,51,68 - a delivery result for a peer
TableTrust(node_id, success) ==
  /\ trust_updates < MaxTrustUpdates
  /\ trust_updates' = trust_updates + 1
  /\ SetTable(SELF, neighbor_manager_update_trust(neighbor_table[SELF], node_id, success))
  /\ UNCHANGED <<now, smVars, bleVars, envVars, replayVars, extVars>>

\* state_machine.c:242,300,393
TableCleanup ==
  /\ SetTable(SELF, neighbor_manager_cleanup_stale(neighbor_table[SELF], now))
  /\ UNCHANGED <<now, smVars, bleVars, trust_updates, envVars, replayVars, extVars>>

\* ms_node.c metrics_task: uint32_t ch = neighbor_manager_get_current_ch()
TableQuery ==
  /\ ch_result' = neighbor_manager_get_current_ch(neighbor_table[SELF], now)
  /\ ch_fresh' = TRUE
  /\ UNCHANGED <<now, smVars, bleVars, neighbor_table, trust_updates, envVars,
               replayVars, extVars>>

TableAdvance ==
  /\ now < TableClockSteps * CH_BEACON_TIMEOUT_MS
  /\ now' = now + CH_BEACON_TIMEOUT_MS
  /\ ch_result' = 0
  /\ ch_fresh' = FALSE
  /\ UNCHANGED <<smVars, bleVars, neighbor_table, trust_updates, envVars, replayVars, extVars>>

InitTable ==
  /\ now = 0
  /\ boot_at = [n \in Node |-> IF n = SELF THEN 0 ELSE -1]
  /\ SmInit /\ BleInit /\ TableInit /\ EnvInit /\ ReplayInit /\ ExtInit

NextTable ==
  \/ \E b \in TableBeacons :
       TableBeacon(b.node_id, b.rssi, b.score, b.trust, b.is_ch)
  \/ TableBurst
  \/ \E node_id \in Peers, success \in BOOLEAN : TableTrust(node_id, success)
  \/ TableCleanup
  \/ TableQuery
  \/ TableAdvance

SpecTable == InitTable /\ [][NextTable]_vars

\* C5: no two entries of a neighbor table share a node_id, after any sequence
\* of beacon updates, trust updates and stale cleanups.
NeighborIdsUnique ==
  \A n \in Node : \A i, j \in 1..Len(neighbor_table[n]) :
     neighbor_table[n][i].node_id = neighbor_table[n][j].node_id => i = j

\* C5 witness: a peer already in the table has been updated again, its trust
\* has been updated, the table is full and a stale entry has been removed.
NeighborTableExercised ==
  /\ Len(neighbor_table[SELF]) = MAX_NEIGHBORS
  /\ trust_updates > 0
  /\ \E i \in 1..MAX_NEIGHBORS :
       /\ neighbor_table[SELF][i].node_id \in Peers
       /\ neighbor_table[SELF][i].trust \notin PeerLevels
  /\ \E i \in 1..MAX_NEIGHBORS : neighbor_table[SELF][i].node_id \in Fillers /\ i < 3
  /\ now > 0

\* the entries current_ch() may return, written out from its contract
CurrentChCandidates(tbl, now_ms) ==
  { i \in 1..Len(tbl) :
      /\ tbl[i].is_ch /\ tbl[i].verified /\ tbl[i].trust >= TRUST_FLOOR
      /\ now_ms - tbl[i].ch_announce_timestamp < CH_BEACON_TIMEOUT_MS }

\* C6: current_ch() returns 0 iff no entry satisfies is_ch, verified,
\* trust >= TRUST_FLOOR and now - ch_announce_timestamp < CH_BEACON_TIMEOUT;
\* otherwise it returns the node_id of such an entry of maximal score.
CurrentChCorrect ==
  ch_fresh =>
    LET tbl == neighbor_table[SELF]
        q   == CurrentChCandidates(tbl, now) IN
    /\ ch_result = 0 <=> q = {}
    /\ ch_result # 0 =>
         \E i \in q : /\ tbl[i].node_id = ch_result
                      /\ \A j \in q : tbl[j].score <= tbl[i].score

\* C6 witness: two entries qualify and the query returned the second, which
\* has the higher score.
CurrentChChosen ==
  /\ ch_fresh
  /\ ch_result # 0
  /\ LET tbl == neighbor_table[SELF] IN
     /\ \E i \in 1..Len(tbl) : tbl[i].node_id = ch_result /\ i > 1
                               /\ tbl[1].score < tbl[i].score
     /\ 1 \in CurrentChCandidates(tbl, now)

----------------------------------------------------------------------------
(* state_machine_task (ms_node.c) calls state_machine_run once per clock    *)
(* period.  One run is a decision (the switch on g_current_state, with the  *)
(* BLE and table calls of the branch taken) followed by the writes of the   *)
(* transition, each its own step:                                           *)
(*   "preflag"  the branch's own assignment to g_is_ch, where it has one    *)
(*   "check"    transition_to_state: if (g_current_state == new_state)      *)
(*   "flag"     g_is_ch = (new_state == STATE_CH)                           *)
(*   "state"    g_current_state = new_state; state_entry_time = now         *)
(*   "post"     what the branch calls after transition_to_state             *)
(* The throttles of one second always pass: the clock period is no shorter. *)

Running(n) == boot_at[n] >= 0 /\ now >= boot_at[n] /\ halt_at[n] < 0

UptimeMs(n) == now - boot_at[n]

\* metrics_get_current().composite_score, as metrics_task keeps it
CompositeScore(n) == metrics_compute_stellar_score(current_metrics[n], UptimeMs(n))

\* the payload ble_manager_update_advertisement builds
AdvPacket(n) ==
  [ score |-> CompositeScore(n), battery |-> current_metrics[n].battery,
    trust |-> current_metrics[n].trust,
    link_quality |-> current_metrics[n].link_quality, is_ch |-> g_is_ch[n] ]

\* a mutant of the expiry test: the window never expires
MutElectionNever(now_ms, window_start) == FALSE

\* a mutant of the expiry test: the window is taken to last four periods longer
MutElectionDue(now_ms, window_start) ==
  now_ms - window_start >= ELECTION_WINDOW_MS + 4 * Quantum

\* "if (now_ms - window_start >= ELECTION_WINDOW_MS)"
ElectionDue(now_ms, window_start) == now_ms - window_start >= ELECTION_WINDOW_MS

Begin(n, target, pre, reset, info) ==
  /\ ticked' = [ticked EXCEPT ![n] = TRUE]
  /\ tick_info' = [tick_info EXCEPT
        ![n] = [info EXCEPT !.at = now, !.target = target, !.reset = reset]]
  /\ tr' = [tr EXCEPT ![n] = [new_state |-> target, pre |-> pre, reset |-> reset,
                              adv |-> FALSE]]
  /\ pc' = [pc EXCEPT ![n] = IF target = "NONE" THEN "idle"
                             ELSE IF pre # "none" THEN "preflag" ELSE "check"]

CanTick(n, st) ==
  /\ Running(n)
  /\ pc[n] = "idle"
  /\ ~ticked[n]
  /\ g_current_state[n] = st

\* ble_manager_start_advertising, ble_manager_start_scanning and
\* ble_manager_update_advertisement, all of which return at once if !ble_ready
BleBeacon(n, scan) ==
  /\ advertising' = [advertising EXCEPT ![n] = @ \/ ble_ready[n]]
  /\ scanning' = [scanning EXCEPT ![n] = IF ble_ready[n] THEN scan ELSE @]
  /\ adv_packet' = [adv_packet EXCEPT ![n] = IF ble_ready[n] THEN AdvPacket(n) ELSE @]

\* state_machine.c:157-165
TickInit(n) ==
  /\ CanTick(n, STATE_INIT)
  /\ Begin(n, IF now - state_entry_time[n] > INIT_SETTLE_MS
                THEN STATE_DISCOVER ELSE "NONE",
           "none", FALSE, [NoTick EXCEPT !.st = STATE_INIT])
  /\ UNCHANGED <<now, g_current_state, g_is_ch, state_entry_time,
                 election_window_start, member_ble_started, console_pc, became,
                 bleVars, tableVars, envVars, replayVars, extVars>>

\* state_machine.c:167-224
TickDiscover(n) ==
  LET elapsed     == now - state_entry_time[n]
      existing_ch == neighbor_manager_get_current_ch(neighbor_table[n], now)
      info        == [NoTick EXCEPT !.st = STATE_DISCOVER, !.cur_ch = existing_ch]
  IN
  /\ CanTick(n, STATE_DISCOVER)
  /\ IF elapsed < DISCOVER_WINDOW_MS
       THEN IF ~ble_ready[n]
              THEN /\ Begin(n, "NONE", "none", FALSE, info)
                   /\ UNCHANGED <<scanning, advertising, adv_packet>>
            ELSE IF existing_ch # 0 /\ elapsed >= DISCOVER_MIN_MS
              THEN /\ Begin(n, STATE_MEMBER, "false", FALSE, info)
                   /\ BleBeacon(n, FALSE)
            ELSE /\ Begin(n, "NONE", "none", FALSE, info)
                 /\ BleBeacon(n, TRUE)
     ELSE IF existing_ch # 0
       THEN /\ Begin(n, STATE_MEMBER, "false", FALSE, info)
            /\ scanning' = [scanning EXCEPT ![n] = FALSE]
            /\ UNCHANGED <<advertising, adv_packet>>
     ELSE /\ Begin(n, STATE_CANDIDATE, "none", TRUE, info)
          /\ UNCHANGED <<scanning, advertising, adv_packet>>
  /\ UNCHANGED <<now, g_current_state, g_is_ch, state_entry_time,
                 election_window_start, member_ble_started, console_pc, became,
                 ble_ready, heard, tableVars, envVars, replayVars, extVars>>

\* a mutant of the branch on the winner: any winner makes the node CH
MutCandidateTarget(n, winner) == STATE_CH

\* state_machine.c:255-267
CandidateTarget(n, winner) ==
  IF winner = n THEN STATE_CH
  ELSE IF winner # 0 THEN STATE_MEMBER
  ELSE STATE_DISCOVER

\* state_machine.c:226-270
TickCandidate(n) ==
  LET tbl          == neighbor_manager_cleanup_stale(neighbor_table[n], now)
      window_start == IF election_window_start[n] = 0 THEN now
                      ELSE election_window_start[n]
      due          == ElectionDue(now, window_start)
      winner       == IF due THEN election_run(n, current_metrics[n], UptimeMs(n), tbl)
                      ELSE 0
      info         == [NoTick EXCEPT !.st = STATE_CANDIDATE, !.ran = due,
                                     !.elapsed = now - window_start,
                                     !.winner = winner]
  IN
  /\ CanTick(n, STATE_CANDIDATE)
  /\ BleBeacon(n, TRUE)
  /\ neighbor_table' = [neighbor_table EXCEPT ![n] = tbl]
  /\ election_window_start' = [election_window_start EXCEPT ![n] = window_start]
  /\ IF ~due THEN Begin(n, "NONE", "none", FALSE, info)
     ELSE Begin(n, CandidateTarget(n, winner),
                IF winner = n THEN "true" ELSE IF winner # 0 THEN "false" ELSE "none",
                FALSE, info)
  /\ UNCHANGED <<now, g_current_state, g_is_ch, state_entry_time,
                 member_ble_started, console_pc, became, ble_ready, heard,
                 ch_result, ch_fresh, trust_updates, envVars, replayVars, extVars>>

\* a mutant of the branch on the trigger: a CH with no other CH to yield to stays
MutChTarget(reelect, other_ch, rf) ==
  IF reelect /\ other_ch # 0 THEN STATE_MEMBER
  ELSE IF rf THEN STATE_UAV_ONBOARDING ELSE "NONE"

\* state_machine.c:282-297, 311-314
ChTarget(reelect, other_ch, rf) ==
  IF reelect THEN (IF other_ch # 0 THEN STATE_MEMBER ELSE STATE_CANDIDATE)
  ELSE IF rf THEN STATE_UAV_ONBOARDING ELSE "NONE"

\* state_machine.c:272-348; rf is the result of rf_receiver_check_trigger()
TickCh(n, rf) ==
  LET reelect  == election_check_reelection_needed(g_is_ch[n], n, current_metrics[n],
                      CompositeScore(n), neighbor_table[n], now)
      other_ch == neighbor_manager_get_current_ch(neighbor_table[n], now)
      info     == [NoTick EXCEPT !.st = STATE_CH, !.reelect = reelect,
                                 !.cur_ch = other_ch]
  IN
  /\ CanTick(n, STATE_CH)
  /\ rf => env_events < MaxEnvEvents /\ ~reelect
  /\ env_events' = IF rf THEN env_events + 1 ELSE env_events
  /\ uav_runs' = IF rf THEN uav_runs + 1 ELSE uav_runs
  /\ adv_packet' = [adv_packet EXCEPT ![n] = IF ble_ready[n] THEN AdvPacket(n) ELSE @]
  /\ Begin(n, ChTarget(reelect, other_ch, rf), IF reelect THEN "false" ELSE "none",
           reelect /\ other_ch = 0, info)
  /\ neighbor_table' = [neighbor_table EXCEPT
        ![n] = IF reelect THEN @ ELSE neighbor_manager_cleanup_stale(@, now)]
  /\ UNCHANGED <<now, g_current_state, g_is_ch, state_entry_time,
                 election_window_start, member_ble_started, console_pc, became,
                 ble_ready, scanning, advertising, heard, ch_result, ch_fresh,
                 trust_updates, boot_at, halt_at, current_metrics, replayVars, extVars>>

\* a mutant of the member's branches: the loss of the CH is not acted on
MutMemberTarget(gate, current_ch, reelect) ==
  IF gate \/ current_ch = 0 THEN "NONE"
  ELSE IF reelect THEN STATE_CANDIDATE ELSE "NONE"

\* state_machine.c:358-367, 370-379, 396-401
MemberTarget(gate, current_ch, reelect) ==
  IF gate THEN "NONE"
  ELSE IF current_ch = 0 THEN STATE_CANDIDATE
  ELSE IF reelect THEN STATE_CANDIDATE ELSE "NONE"

\* state_machine.c:350-401 (the data path that follows changes none of this)
TickMember(n) ==
  LET gate       == ~member_ble_started[n] /\ ~ble_ready[n]
      current_ch == neighbor_manager_get_current_ch(neighbor_table[n], now)
      tbl        == neighbor_manager_cleanup_stale(neighbor_table[n], now)
      reelect    == election_check_reelection_needed(g_is_ch[n], n, current_metrics[n],
                        CompositeScore(n), tbl, now)
      info       == [NoTick EXCEPT !.st = STATE_MEMBER, !.gate = gate,
                                   !.cur_ch = current_ch,
                                   !.reelect = ~gate /\ current_ch # 0 /\ reelect]
  IN
  /\ CanTick(n, STATE_MEMBER)
  /\ IF gate
       THEN /\ Begin(n, "NONE", "none", FALSE, info)
            /\ UNCHANGED <<member_ble_started, advertising, adv_packet, neighbor_table>>
     ELSE IF current_ch = 0
       THEN /\ Begin(n, MemberTarget(gate, current_ch, reelect), "none",
                    MemberTarget(gate, current_ch, reelect) # "NONE", info)
            /\ member_ble_started' = [member_ble_started EXCEPT ![n] = FALSE]
            /\ advertising' = [advertising EXCEPT ![n] = @ \/ ~member_ble_started[n]]
            /\ adv_packet' = [adv_packet EXCEPT
                  ![n] = IF ~member_ble_started[n] /\ ~advertising[n]
                           THEN AdvPacket(n) ELSE @]
            /\ UNCHANGED neighbor_table
     ELSE /\ Begin(n, MemberTarget(gate, current_ch, reelect), "none", reelect, info)
          /\ member_ble_started' = [member_ble_started EXCEPT ![n] = ~reelect]
          /\ advertising' = [advertising EXCEPT ![n] = @ \/ ~member_ble_started[n]]
          /\ adv_packet' = [adv_packet EXCEPT
                ![n] = IF ble_ready[n] \/ (~member_ble_started[n] /\ ~advertising[n])
                         THEN AdvPacket(n) ELSE @]
          /\ neighbor_table' = [neighbor_table EXCEPT ![n] = tbl]
  /\ UNCHANGED <<now, g_current_state, g_is_ch, state_entry_time,
                 election_window_start, console_pc, became, ble_ready, scanning,
                 heard, ch_result, ch_fresh, trust_updates, envVars, replayVars, extVars>>

\* state_machine.c:524-533: stop scanning, then block in uav_client_run_onboarding
TickUav(n) ==
  /\ CanTick(n, STATE_UAV_ONBOARDING)
  /\ ticked' = [ticked EXCEPT ![n] = TRUE]
  /\ tick_info' = [tick_info EXCEPT
        ![n] = [NoTick EXCEPT !.st = STATE_UAV_ONBOARDING, !.at = now,
                              !.target = STATE_CH]]
  /\ scanning' = [scanning EXCEPT ![n] = FALSE]
  /\ pc' = [pc EXCEPT ![n] = "onboarding"]
  /\ UNCHANGED <<now, g_current_state, g_is_ch, state_entry_time,
                 election_window_start, member_ble_started, tr, console_pc, became,
                 ble_ready, advertising, adv_packet, heard, tableVars, envVars,
                 replayVars, extVars>>

\* state_machine.c:535-546: onboarding returns; back to CH, advertise again
OnboardDone(n) ==
  /\ Running(n)
  /\ pc[n] = "onboarding"
  /\ pc' = [pc EXCEPT ![n] = "check"]
  /\ tr' = [tr EXCEPT ![n] = [new_state |-> STATE_CH, pre |-> "none",
                              reset |-> FALSE, adv |-> TRUE]]
  /\ UNCHANGED <<now, g_current_state, g_is_ch, state_entry_time,
                 election_window_start, member_ble_started, console_pc, ticked,
                 tick_info, became, bleVars, tableVars, envVars, replayVars, extVars>>

\* the assignment to g_is_ch that precedes transition_to_state in the branch
\* (state_machine.c:199, 215, 257, 261, 288, 292)
SmPreFlag(n) ==
  /\ pc[n] = "preflag"
  /\ g_is_ch' = [g_is_ch EXCEPT ![n] = (tr[n].pre = "true")]
  /\ pc' = [pc EXCEPT ![n] = "check"]
  /\ UNCHANGED <<now, g_current_state, state_entry_time, election_window_start,
                 member_ble_started, tr, console_pc, ticked, tick_info, became,
                 bleVars, tableVars, envVars, replayVars, extVars>>

\* state_machine.c:106-108
SmTrCheck(n) ==
  /\ pc[n] = "check"
  /\ pc' = [pc EXCEPT ![n] = IF g_current_state[n] = tr[n].new_state
                               THEN "post" ELSE "flag"]
  /\ UNCHANGED <<now, g_current_state, g_is_ch, state_entry_time,
                 election_window_start, member_ble_started, tr, console_pc, ticked,
                 tick_info, became, bleVars, tableVars, envVars, replayVars, extVars>>

\* state_machine.c:120-124
SmTrFlag(n) ==
  /\ pc[n] = "flag"
  /\ g_is_ch' = [g_is_ch EXCEPT ![n] = (tr[n].new_state = STATE_CH)]
  /\ pc' = [pc EXCEPT ![n] = "state"]
  /\ UNCHANGED <<now, g_current_state, state_entry_time, election_window_start,
                 member_ble_started, tr, console_pc, ticked, tick_info, became,
                 bleVars, tableVars, envVars, replayVars, extVars>>

\* state_machine.c:126-128
SmTrState(n) ==
  /\ pc[n] = "state"
  /\ g_current_state' = [g_current_state EXCEPT ![n] = tr[n].new_state]
  /\ state_entry_time' = [state_entry_time EXCEPT ![n] = now]
  /\ became' = [became EXCEPT
        ![n].ch = @ \/ tr[n].new_state = STATE_CH,
        ![n].member = @ \/ tr[n].new_state = STATE_MEMBER,
        ![n].uav_from = IF tr[n].new_state = STATE_UAV_ONBOARDING
                          THEN g_current_state[n] ELSE @]
  /\ pc' = [pc EXCEPT ![n] = "post"]
  /\ UNCHANGED <<now, g_is_ch, election_window_start, member_ble_started, tr,
                 console_pc, ticked, tick_info, bleVars, tableVars, envVars,
                 replayVars, extVars>>

\* election_reset_window() (state_machine.c:221, 294, 377, 400) or
\* ble_manager_start_advertising() (state_machine.c:546) after the transition
SmPost(n) ==
  /\ pc[n] = "post"
  /\ election_window_start' =
       [election_window_start EXCEPT ![n] = IF tr[n].reset THEN now ELSE @]
  /\ advertising' = [advertising EXCEPT ![n] = @ \/ (tr[n].adv /\ ble_ready[n])]
  /\ adv_packet' = [adv_packet EXCEPT
        ![n] = IF tr[n].adv /\ ble_ready[n] /\ ~advertising[n] THEN AdvPacket(n) ELSE @]
  /\ tr' = [tr EXCEPT ![n] = NoTransition]
  /\ pc' = [pc EXCEPT ![n] = "idle"]
  /\ UNCHANGED <<now, g_current_state, g_is_ch, state_entry_time,
                 member_ble_started, console_pc, ticked, tick_info, became,
                 ble_ready, scanning, heard, tableVars, envVars, replayVars, extVars>>

----------------------------------------------------------------------------
(* console_config_task (ms_node.c:225-259): the TRIGGER_UAV command calls   *)
(* state_machine_force_uav_test, i.e. transition_to_state, from a second    *)
(* task, with no lock shared with state_machine_task.                       *)

ConsoleTrigger(n) ==
  /\ Running(n)
  /\ console_pc[n] = "idle"
  /\ env_events < MaxEnvEvents
  /\ env_events' = env_events + 1
  /\ uav_runs' = uav_runs + 1
  /\ console_pc' = [console_pc EXCEPT ![n] = "check"]
  /\ UNCHANGED <<now, g_current_state, g_is_ch, state_entry_time,
                 election_window_start, member_ble_started, pc, tr, ticked,
                 tick_info, became, bleVars, tableVars, boot_at, halt_at,
                 current_metrics, replayVars, extVars>>

ConsoleTrCheck(n) ==
  /\ console_pc[n] = "check"
  /\ console_pc' = [console_pc EXCEPT
        ![n] = IF g_current_state[n] = STATE_UAV_ONBOARDING THEN "idle" ELSE "flag"]
  /\ UNCHANGED <<now, g_current_state, g_is_ch, state_entry_time,
                 election_window_start, member_ble_started, pc, tr, ticked,
                 tick_info, became, bleVars, tableVars, envVars, replayVars, extVars>>

ConsoleTrFlag(n) ==
  /\ console_pc[n] = "flag"
  /\ g_is_ch' = [g_is_ch EXCEPT ![n] = FALSE]
  /\ console_pc' = [console_pc EXCEPT ![n] = "state"]
  /\ UNCHANGED <<now, g_current_state, state_entry_time, election_window_start,
                 member_ble_started, pc, tr, ticked, tick_info, became, bleVars,
                 tableVars, envVars, replayVars, extVars>>

ConsoleTrState(n) ==
  /\ console_pc[n] = "state"
  /\ g_current_state' = [g_current_state EXCEPT ![n] = STATE_UAV_ONBOARDING]
  /\ state_entry_time' = [state_entry_time EXCEPT ![n] = now]
  /\ console_pc' = [console_pc EXCEPT ![n] = "idle"]
  /\ became' = [became EXCEPT ![n].uav_from = g_current_state[n]]
  /\ UNCHANGED <<now, g_is_ch, election_window_start, member_ble_started, pc, tr,
                 ticked, tick_info, bleVars, tableVars, envVars, replayVars, extVars>>

----------------------------------------------------------------------------
(* The environment of one node.  Its steps touch the BLE flags, the         *)
(* neighbor table and the metrics, none of which the writes of a transition *)
(* read, so they are taken between runs of state_machine_run.  A change of  *)
(* the BLE host or of the metrics is first seen by the next run, so it is   *)
(* taken in the period of that run, before it.                              *)

Quiet(n) == Running(n) /\ pc[n] \in {"idle", "onboarding"} /\ console_pc[n] = "idle"

BeforeRun(n) == Quiet(n) /\ (~ticked[n] \/ pc[n] = "onboarding")

\* ble_on_sync (ble_manager.c:44)
BleSync(n) ==
  /\ BeforeRun(n)
  /\ ~ble_ready[n]
  /\ ble_ready' = [ble_ready EXCEPT ![n] = TRUE]
  /\ UNCHANGED <<now, smVars, scanning, advertising, adv_packet, heard, tableVars,
                 envVars, replayVars, extVars>>

\* ble_on_reset (ble_manager.c:50)
BleReset(n) ==
  /\ BeforeRun(n)
  /\ ble_ready[n]
  /\ env_events < MaxEnvEvents
  /\ env_events' = env_events + 1
  /\ ble_ready' = [ble_ready EXCEPT ![n] = FALSE]
  /\ UNCHANGED <<now, smVars, scanning, advertising, adv_packet, heard, tableVars,
                 boot_at, halt_at, current_metrics, uav_runs, replayVars, extVars>>

\* the scan callback (ble_manager.c:200-310) on a beacon that passes its checks
Receive(n, from, pkt) ==
  /\ Quiet(n)
  /\ ble_ready[n] /\ scanning[n]
  /\ ~heard[n]
  /\ heard' = [heard EXCEPT ![n] = TRUE]
  /\ neighbor_table' = [neighbor_table EXCEPT
        ![n] = neighbor_manager_update(@, now, from, -60, pkt.score, pkt.battery,
                                       pkt.trust, pkt.link_quality, pkt.is_ch, 0)]
  /\ UNCHANGED <<now, smVars, ble_ready, scanning, advertising, adv_packet,
                 ch_result, ch_fresh, trust_updates, boot_at, halt_at,
                 current_metrics, uav_runs, replayVars, extVars>>

\* a beacon of the peer of Spec is heard
PeerBeacon(pkt) ==
  /\ env_events < MaxEnvEvents
  /\ env_events' = env_events + 1
  /\ Receive(SELF, 200, pkt)

\* the beacons of the peer of Spec: a node like this one, and a cluster head
\* with a higher score
PeerBeacons ==
  { [score |-> 770000, battery |-> 9000, trust |-> 9000, link_quality |-> 9000,
     is_ch |-> FALSE],
    [score |-> 900000, battery |-> 9000, trust |-> 9000, link_quality |-> 9000,
     is_ch |-> TRUE] }

Weak == [battery |-> 5000, trust |-> 5000, link_quality |-> 5000, base_uptime |-> 0]

\* the battery reading falls below BATTERY_LOW_THRESHOLD
BatteryDrain(n) ==
  /\ BeforeRun(n)
  /\ current_metrics[n].battery >= BATTERY_LOW_THRESHOLD
  /\ env_events < MaxEnvEvents
  /\ env_events' = env_events + 1
  /\ current_metrics' = [current_metrics EXCEPT ![n].battery = 1000]
  /\ UNCHANGED <<now, smVars, bleVars, tableVars, boot_at, halt_at, uav_runs,
                 replayVars, extVars>>

\* vTaskDelay(pdMS_TO_TICKS(...)) of state_machine_task: the next period starts
\* when the run of this period is over (or the task is blocked in onboarding).
\* The BLE host started by ble_manager_init syncs within the first period.
Advance ==
  /\ now + Quantum <= MaxTime
  /\ \A n \in Node : Running(n) =>
        /\ console_pc[n] = "idle"
        /\ (pc[n] = "idle" /\ ticked[n]) \/ pc[n] = "onboarding"
        /\ now = boot_at[n] => ble_ready[n]
  /\ now' = now + Quantum
  /\ ticked' = [n \in Node |-> FALSE]
  /\ heard' = [n \in Node |-> FALSE]
  /\ UNCHANGED <<g_current_state, g_is_ch, state_entry_time, election_window_start,
                 member_ble_started, pc, tr, console_pc, tick_info, became,
                 ble_ready, scanning, advertising, adv_packet, tableVars, envVars,
                 replayVars, extVars>>

Init ==
  /\ now = 0
  /\ boot_at = [n \in Node |-> IF n = SELF THEN 0 ELSE -1]
  /\ SmInit /\ BleInit /\ TableInit /\ ReplayInit /\ ExtInit
  /\ halt_at = [n \in Node |-> -1]
  /\ current_metrics \in [Node -> {Healthy, Weak}]
  /\ \A n \in Node : n # SELF => current_metrics[n] = Healthy
  /\ uav_runs = 0
  /\ env_events = 0

Step(n) ==
  \/ TickInit(n) \/ TickDiscover(n) \/ TickCandidate(n)
  \/ \E rf \in BOOLEAN : TickCh(n, rf)
  \/ TickMember(n) \/ TickUav(n) \/ OnboardDone(n)
  \/ SmPreFlag(n) \/ SmTrCheck(n) \/ SmTrFlag(n) \/ SmTrState(n) \/ SmPost(n)

Next ==
  \/ \E n \in Node : Step(n)
  \/ \E n \in Node : ConsoleTrigger(n) \/ ConsoleTrCheck(n) \/ ConsoleTrFlag(n)
                       \/ ConsoleTrState(n)
  \/ \E n \in Node : BleSync(n) \/ BleReset(n) \/ BatteryDrain(n)
  \/ \E pkt \in PeerBeacons : PeerBeacon(pkt)
  \/ Advance

Spec == Init /\ [][Next]_vars

\* C1: in every state, between any two steps of any task, g_is_ch is true iff
\* the node state is CH.
FlagMirrorsState ==
  \A n \in Node : g_is_ch[n] <=> g_current_state[n] = STATE_CH

\* C1 witness: a forced transition to UAV_ONBOARDING has raced with the
\* transition of an election winner, and both tasks are done.
FlagRaceOver ==
  /\ pc[SELF] = "idle" /\ console_pc[SELF] = "idle"
  /\ uav_runs > 0
  /\ tick_info[SELF].st = STATE_CANDIDATE /\ tick_info[SELF].target = STATE_CH
  /\ g_current_state[SELF] = STATE_CH /\ ~g_is_ch[SELF]

Settled(n) == became[n].ch \/ became[n].member

ClaimedReachBound == DISCOVER_WINDOW_MS + ELECTION_WINDOW_MS + Quantum
ReachBound == INIT_SETTLE_MS + DISCOVER_WINDOW_MS + ELECTION_WINDOW_MS + 3 * Quantum

\* C2 (as stated): a node that has heard a peer is CH or MEMBER, or has been,
\* once more than DISCOVER_WINDOW + ELECTION_WINDOW + one tick has passed since
\* boot (no onboarding having been forced).
ReachesRoleByClaimedBound ==
  \A n \in Node :
     Running(n) /\ uav_runs = 0 /\ Len(neighbor_table[n]) > 0
       /\ now - boot_at[n] > ClaimedReachBound
     => Settled(n)

\* C2 (amended): a node is CH or MEMBER, or has been, once the 2000 ms it
\* spends in INIT, DISCOVER_WINDOW, ELECTION_WINDOW and three ticks have passed
\* since boot, provided no UAV onboarding has been forced or triggered.
ReachesRoleByBound ==
  \A n \in Node :
     Running(n) /\ uav_runs = 0 /\ now - boot_at[n] >= ReachBound => Settled(n)

\* C2 witness: a node that has heard a peer took its role only after the
\* bound of the claim, and within the amended bound.
RoleReachedLate ==
  /\ Settled(SELF) /\ uav_runs = 0
  /\ Len(neighbor_table[SELF]) > 0
  /\ state_entry_time[SELF] - boot_at[SELF] > ClaimedReachBound
  /\ g_current_state[SELF] \in {STATE_CH, STATE_MEMBER}
  /\ now - boot_at[SELF] >= ReachBound

\* C7: a Candidate runs the election only at a tick where ELECTION_WINDOW_MS
\* or more has elapsed since the window was reset, and then goes to CH iff the
\* winner is itself, to MEMBER iff the winner is another non-zero id, and to
\* DISCOVER iff there is no valid winner.
CandidateElection ==
  \A n \in Node :
     LET t == tick_info[n] IN
     t.st = STATE_CANDIDATE =>
       /\ t.ran => t.elapsed >= ELECTION_WINDOW_MS
       /\ ~t.ran => t.target = "NONE"
       /\ t.ran =>
            /\ t.target = STATE_CH <=> t.winner = n
            /\ t.target = STATE_MEMBER <=> (t.winner # n /\ t.winner # 0)
            /\ t.target = STATE_DISCOVER <=> t.winner = 0
       /\ pc[n] = "idle" /\ t.ran =>
            g_current_state[n] \in {t.target, STATE_UAV_ONBOARDING}

\* C7 witness: an election was run and won by the peer; the node is MEMBER.
ElectionLost ==
  /\ tick_info[SELF].st = STATE_CANDIDATE /\ tick_info[SELF].ran
  /\ tick_info[SELF].winner = 200
  /\ pc[SELF] = "idle" /\ g_current_state[SELF] = STATE_MEMBER

ChLeavesOnTrigger ==
  \A n \in Node :
     LET t == tick_info[n] IN
     t.st = STATE_CH /\ t.reelect =>
       /\ t.cur_ch # 0 => t.target = STATE_MEMBER
       /\ t.cur_ch = 0 => t.target = STATE_CANDIDATE /\ t.reset
       /\ pc[n] = "idle" =>
            /\ g_current_state[n] # STATE_CH
            /\ t.cur_ch = 0 => election_window_start[n] = t.at

\* C9 witness: a CH with a low battery and no other CH is CANDIDATE, its
\* election window reset at that tick.
ChSteppedDown ==
  /\ tick_info[SELF].st = STATE_CH /\ tick_info[SELF].reelect
  /\ tick_info[SELF].cur_ch = 0
  /\ pc[SELF] = "idle" /\ g_current_state[SELF] = STATE_CANDIDATE
  /\ election_window_start[SELF] = now

----------------------------------------------------------------------------
(* SpecS2: two nodes, 100 and 200, with identical metrics, each hearing the *)
(* other's beacons once per clock period while it scans; either may boot    *)
(* later than the other, and the cluster head may lose power.               *)

BootLags   == {0, 3 * Quantum, 20 * Quantum}
LowBattery == [battery |-> 1000, trust |-> 9000, link_quality |-> 9000, base_uptime |-> 0]

FailoverBound == CH_BEACON_TIMEOUT_MS + ELECTION_WINDOW_MS + Quantum

FailoverHorizon == FailoverBound + 3 * Quantum

Audible(to) ==
  {from \in Node \ {to} : Running(from) /\ ble_ready[from] /\ advertising[from]}

\* the advertisement of the other node reaches the scan callback, between two
\* ticks
Deliver(to, from) ==
  /\ from \in Audible(to)
  /\ \A m \in Node : Running(m) => (pc[m] = "idle" /\ ticked[m])
  /\ Receive(to, from, adv_packet[from])
  /\ UNCHANGED env_events

\* the cluster head loses power in a steady state
PowerOff(n) ==
  /\ \A m \in Node : Running(m) /\ pc[m] = "idle" /\ ticked[m]
  /\ g_current_state[n] = STATE_CH
  /\ \A m \in Node \ {n} : g_current_state[m] = STATE_MEMBER
  /\ halt_at' = [halt_at EXCEPT ![n] = now]
  /\ became' = [m \in Node |-> [NoRole EXCEPT !.uav_from = became[m].uav_from]]
  /\ UNCHANGED <<now, g_current_state, g_is_ch, state_entry_time, election_window_start,
                 member_ble_started, pc, tr, console_pc, ticked, tick_info,
                 bleVars, tableVars, boot_at, current_metrics, uav_runs,
                 env_events, replayVars, extVars>>

AdvanceS2 ==
  /\ now + Quantum <= S2MaxTime
  /\ \A n \in Node : halt_at[n] >= 0 => now < halt_at[n] + FailoverHorizon
  /\ \A n \in Node : Running(n) =>
        /\ pc[n] = "idle" /\ ticked[n]
        /\ now = boot_at[n] => ble_ready[n]
        /\ (ble_ready[n] /\ scanning[n] /\ Audible(n) # {}) => heard[n]
  /\ now' = now + Quantum
  /\ ticked' = [n \in Node |-> FALSE]
  /\ heard' = [n \in Node |-> FALSE]
  /\ UNCHANGED <<g_current_state, g_is_ch, state_entry_time, election_window_start,
                 member_ble_started, pc, tr, console_pc, tick_info, became,
                 ble_ready, scanning, advertising, adv_packet, tableVars, envVars,
                 replayVars, extVars>>

InitS2 ==
  /\ now = 0
  /\ boot_at \in [Node -> BootLags]
  /\ \E n \in Node : boot_at[n] = 0
  /\ SmInit /\ BleInit /\ TableInit /\ ReplayInit /\ ExtInit
  /\ halt_at = [n \in Node |-> -1]
  /\ \E m \in {Healthy, LowBattery} : current_metrics = [n \in Node |-> m]
  /\ uav_runs = 0
  /\ env_events = 0

\* The ticks of the two devices do not overlap: in each period node 100 runs
\* its tick before node 200.
Turn(n) == \A m \in Node : (m < n /\ Running(m)) => (ticked[m] /\ pc[m] = "idle")

StepS2(n) ==
  \/ TickInit(n) \/ TickDiscover(n) \/ TickCandidate(n) \/ TickCh(n, FALSE)
  \/ TickMember(n)
  \/ SmPreFlag(n) \/ SmTrCheck(n) \/ SmTrFlag(n) \/ SmTrState(n) \/ SmPost(n)

NextS2 ==
  \/ \E n \in Node : Turn(n) /\ StepS2(n)
  \/ \E n \in Node : BleSync(n)
  \/ \E to, from \in Node : Deliver(to, from)
  \/ \E n \in Node : PowerOff(n)
  \/ AdvanceS2

SpecS2 == InitS2 /\ [][NextS2]_vars

Converged ==
  /\ g_current_state[100] = STATE_CH
  /\ g_current_state[200] = STATE_MEMBER

LastBoot == CHOOSE t \in {boot_at[n] : n \in Node} : \A n \in Node : boot_at[n] <= t

NoneHalted == \A n \in Node : halt_at[n] < 0

ConvergeBound ==
  INIT_SETTLE_MS + DISCOVER_WINDOW_MS + CH_BEACON_TIMEOUT_MS + ELECTION_WINDOW_MS
    + 6 * Quantum

----------------------------------------------------------------------------
(* SpecRx: the scan callback of node SELF (ble_gap_event, BLE_GAP_EVENT_DISC)*)
(* under advertisements of its peers and of a sender without the cluster    *)
(* key, with a running clock.                                               *)

CLUSTER_KEY  == 173     \* g_cluster_key, as one number
ATTACKER_KEY == 58      \* a key that is not the cluster key

\* auth_generate_hmac truncated to its first byte: a byte that depends on the
\* key and on every field from node_id to seq_num
Hmac(key, pkt) ==
  (key * 131 + pkt.node_id * 7 + pkt.score * 3 + pkt.battery * 5 + pkt.trust * 11
     + pkt.link_quality * 13 + (IF pkt.is_ch THEN 17 ELSE 0) + pkt.seq_num * 19) % 256

\* ble_manager_update_advertisement: the fields, then the HMAC byte over them
Sign(key, pkt) == [pkt EXCEPT !.hmac = Hmac(key, pkt)]

\* "int hmac_diff = computed_hmac[0] ^ pkt->hmac[0]; if (hmac_diff == 0)"
HmacValid(pkt) == Hmac(CLUSTER_KEY, pkt) = pkt.hmac

\* a mutant of the count: a gap of more than 20 is reported as it is
MutSeqMissed(seq_num, last_seq_num) ==
  LET diff == (seq_num - last_seq_num + 256) % 256 IN
  IF diff > 1 THEN diff - 1 ELSE 0

\* "int diff = seq_num - last_seq_num; if (diff < 0) diff += 256;
\*  missed = diff > 1 ? diff - 1 : 0; if (missed > 20) missed = 0;"

SeqMissed(seq_num, last_seq_num) ==
  LET d      == seq_num - last_seq_num
      diff   == IF d < 0 THEN d + 256 ELSE d
      missed == IF diff > 1 THEN diff - 1 ELSE 0
  IN IF missed > 20 THEN 0 ELSE missed

SeqNums == {0, 2, 3, 5, 7, 28, 250}

RxFields(node_id, is_ch, seq_num) ==
  [node_id |-> node_id, score |-> 700000, battery |-> 9000, trust |-> 9000,
   link_quality |-> 9000, is_ch |-> is_ch, seq_num |-> seq_num, hmac |-> 0]

\* what the peers 200 (a cluster head) and 300 advertise
PeerPackets ==
  {Sign(CLUSTER_KEY, RxFields(200, TRUE, q)) : q \in SeqNums}
    \cup {Sign(CLUSTER_KEY, RxFields(300, FALSE, 5))}

\* what a sender without the key can put on the air: its own packets, and a
\* recorded packet of a peer with a field changed
ForgedPackets ==
  { Sign(ATTACKER_KEY, RxFields(200, TRUE, 5)),
    Sign(ATTACKER_KEY, RxFields(400, TRUE, 5)),
    [Sign(CLUSTER_KEY, RxFields(300, FALSE, 5)) EXCEPT !.is_ch = TRUE] }

\* "if (pkt->node_id == g_node_id || pkt->node_id == 0) continue;"
RxSkipped(self, pkt) == pkt.node_id = self \/ pkt.node_id = 0

\* a mutant of the callback: the packet is applied whatever the comparison says
Mut_ble_gap_event(tbl, now_ms, self, pkt, rssi) ==
  neighbor_manager_update(tbl, now_ms, pkt.node_id, rssi, pkt.score, pkt.battery,
                          pkt.trust, pkt.link_quality, pkt.is_ch, pkt.seq_num)

\* the table after the callback has handled the packet
ble_gap_event(tbl, now_ms, self, pkt, rssi) ==
  IF ~RxSkipped(self, pkt) /\ HmacValid(pkt)
    THEN neighbor_manager_update(tbl, now_ms, pkt.node_id, rssi, pkt.score,
                                 pkt.battery, pkt.trust, pkt.link_quality,
                                 pkt.is_ch, pkt.seq_num)
  ELSE tbl

\* the manufacturer data of one advertisement report goes through the callback
RxDeliver(pkt) ==
  LET tbl   == neighbor_table[SELF]
      valid == ~RxSkipped(SELF, pkt) /\ HmacValid(pkt)
      i     == FindEntry(tbl, pkt.node_id)
      known == valid /\ i > 0
  IN
  /\ rx_log.count < MaxRx
  /\ neighbor_table' = [neighbor_table EXCEPT ![SELF] =
                          ble_gap_event(tbl, now, SELF, pkt, -60)]
  /\ rx_log' = [count |-> rx_log.count + 1, pkt |-> pkt, valid |-> valid,
                again |-> pkt \in rx_log.seen, before |-> tbl, known |-> known,
                last_seq |-> IF known THEN tbl[i].last_seq_num ELSE 0,
                reported |-> known,
                missed |-> IF known THEN SeqMissed(pkt.seq_num, tbl[i].last_seq_num)
                           ELSE 0,
                seen |-> IF valid THEN rx_log.seen \cup {pkt} ELSE rx_log.seen]
  /\ rx_reports' =
       IF valid /\ pkt.node_id = 200
         THEN Append(rx_reports,
                     [seq |-> pkt.seq_num, reported |-> known,
                      missed |-> IF known
                                   THEN SeqMissed(pkt.seq_num, tbl[i].last_seq_num)
                                   ELSE 0])
       ELSE rx_reports
  /\ rx_authentic' = IF valid THEN rx_authentic \cup {pkt.node_id} ELSE rx_authentic
  /\ UNCHANGED <<now, smVars, bleVars, ch_result, ch_fresh, trust_updates, envVars,
                 replayVars, compVars, elVars, schedVars>>

RxAdvance ==
  /\ now < RxClockSteps * Quantum
  /\ now' = now + Quantum
  /\ UNCHANGED <<smVars, bleVars, tableVars, envVars, replayVars, extVars>>

InitRx ==
  /\ now = 0
  /\ boot_at = [n \in Node |-> IF n = SELF THEN 0 ELSE -1]
  /\ SmInit /\ TableInit /\ EnvInit /\ ReplayInit /\ RxInit /\ ElInit /\ SchedInit
  /\ CompInit
  /\ ble_ready = [n \in Node |-> n = SELF]
  /\ scanning = [n \in Node |-> n = SELF]
  /\ advertising = [n \in Node |-> FALSE]
  /\ adv_packet = [n \in Node |-> NoPacket]
  /\ heard = [n \in Node |-> FALSE]

NextRx ==
  \/ \E pkt \in PeerPackets \cup ForgedPackets : RxDeliver(pkt)
  \/ RxAdvance

SpecRx == InitRx /\ [][NextRx]_vars

\* C11 (as stated): an identical copy of a beacon that was accepted before is
\* rejected: the neighbor table, with last_seen_ms, ch_announce_timestamp and
\* last_seq_num, is as it was before the copy arrived.
ReplayedBeaconRejected ==
  (rx_log.count > 0 /\ rx_log.again /\ rx_log.pkt.seq_num = 5)
    => neighbor_table[SELF] = rx_log.before

\* C12: a beacon whose HMAC byte does not verify leaves the neighbor table as
\* it was, and every entry of the table belongs to an id whose beacon has
\* passed the comparison.
UnverifiedBeaconIgnored ==
  /\ (rx_log.count > 0 /\ ~rx_log.valid) => neighbor_table[SELF] = rx_log.before
  /\ \A i \in 1..Len(neighbor_table[SELF]) :
       neighbor_table[SELF][i].node_id \in rx_authentic

\* C12 witness: a packet signed with another key, carrying the id of a known
\* peer, has been dropped.
ForgedBeaconDropped ==
  /\ rx_log.count > 0 /\ ~rx_log.valid
  /\ rx_log.pkt \in ForgedPackets
  /\ FindEntry(rx_log.before, rx_log.pkt.node_id) > 0

SeqGap(seq_num, last_seq_num) == ((seq_num - last_seq_num + 256) % 256) - 1

RxSeqs == [i \in 1..Len(rx_reports) |-> rx_reports[i].seq]

\* C18 (as stated): the missed count reported for a beacon of a known peer is
\* gap = ((seq - last_seq) mod 256) - 1 when gap <= 20, and 0 when gap > 20.
MissedCountIsGap ==
  rx_log.reported =>
    LET gap == SeqGap(rx_log.pkt.seq_num, rx_log.last_seq) IN
    rx_log.missed = IF gap > 20 THEN 0 ELSE gap

\* C18 (amended): the missed count reported for a beacon of a known peer is
\* gap = ((seq - last_seq) mod 256) - 1 when 0 <= gap <= 20, and 0 when
\* gap > 20 or when the sequence number is the one last seen (gap = -1); the
\* arrivals 0, 2, 3, 7 report 1, 0, 3.
MissedCountReported ==
  /\ rx_log.reported =>
       LET gap == SeqGap(rx_log.pkt.seq_num, rx_log.last_seq) IN
       rx_log.missed = IF gap > 20 \/ gap < 0 THEN 0 ELSE gap
  /\ RxSeqs = <<0, 2, 3, 7>> =>
       /\ ~rx_reports[1].reported
       /\ \A i \in 2..4 : rx_reports[i].reported
       /\ <<rx_reports[2].missed, rx_reports[3].missed, rx_reports[4].missed>>
            = <<1, 0, 3>>

\* C18 witness: the arrivals 0, 2, 3, 7 of one peer have been handled.
StreamHandled == RxSeqs = <<0, 2, 3, 7>>

\* C13 (as stated): whatever the clock shows, a timestamp within
\* now -+ REPLAY_WINDOW_MS that is above the one recorded for its sender, or
\* whose sender is not recorded, is accepted.
TimestampInWindowAccepted ==
  LET c == replay_log.last IN
  ( /\ c.called
    /\ c.now_ms - REPLAY_WINDOW_MS <= c.timestamp
    /\ c.timestamp <= c.now_ms + REPLAY_WINDOW_MS
    /\ (~c.had_entry \/ c.timestamp > c.prev_ts) )
  => c.accepted

\* C13 witness: with the clock past REPLAY_WINDOW_MS, a newer timestamp of a
\* recorded sender has been accepted.
NewerTimestampAccepted ==
  LET c == replay_log.last IN
  c.called /\ c.had_entry /\ c.timestamp > c.prev_ts /\ c.accepted

----------------------------------------------------------------------------
(* SpecElection: election_run called repeatedly on a fixed neighbor snapshot *)
(* with fixed own metrics, the Lyapunov weights adapting at every call.      *)

MIN_WEIGHT_VALUE == 50000    \* 0.05f, scaled by 1000000
UPTIME_VARIANCE  == 100000   \* "0.001f", scaled by 100000000
VARIANCE_FLOOR   == 100      \* "1e-6f", scaled by 100000000

\* the square root, rounded down, of a variance (at most 1, scaled): first
\* in steps of 100, then within the step
CoarseSqrt(x) ==
  CHOOSE h \in 0..100 :
    (100 * h) * (100 * h) <= x /\ x < (100 * h + 100) * (100 * h + 100)
ISqrt(x) ==
  CHOOSE r \in (100 * CoarseSqrt(x))..(100 * CoarseSqrt(x) + 99) :
    r * r <= x /\ (r + 1) * (r + 1) > x

\* a / s scaled by 1000000, rounded down (a and s at most 2000000)
DivMicro(a, s) ==
  LET q1 == (a * 1000) \div s
      r1 == (a * 1000) % s
  IN q1 * 1000 + (r1 * 1000) \div s

Sum4(t) == t[1] + t[2] + t[3] + t[4]

\* sigma^2 <- alpha (m - prev)^2 + (1 - alpha) sigma^2, alpha = EWMA_VARIANCE_ALPHA
EwmaVariance(variance, reading, prev) ==
  ((reading - prev) * (reading - prev) + 9 * variance) \div 10

metrics_update_variance_estimates(g, m) ==
  [ g EXCEPT !.variance =
               << EwmaVariance(g.variance[1], m.battery, g.prev[1]),
                  EwmaVariance(g.variance[2], m.trust, g.prev[2]),
                  EwmaVariance(g.variance[3], m.link_quality, g.prev[3]) >>,
             !.prev = <<m.battery, m.trust, m.link_quality>> ]

\* exp(-H) with H = 0.5 ln(2 pi e sigma^2) and ENTROPY_GAMMA = 1 is
\* proportional to 1 / sigma
InverseSigma(variance) ==
  5000000 \div ISqrt(IF variance < VARIANCE_FLOOR THEN VARIANCE_FLOOR ELSE variance)

Normalise4(t, sum) ==
  <<DivMicro(t[1], sum), DivMicro(t[2], sum), DivMicro(t[3], sum), DivMicro(t[4], sum)>>

\* c_i = exp(-H_i) / sum_j exp(-H_j)
metrics_compute_entropy_confidence(variance) ==
  LET inv == << InverseSigma(variance[1]), InverseSigma(UPTIME_VARIANCE),
                InverseSigma(variance[2]), InverseSigma(variance[3]) >>
  IN Normalise4(inv, Sum4(inv))

ClampWeight(w) == IF w < MIN_WEIGHT_VALUE THEN MIN_WEIGHT_VALUE ELSE w

\* a mutant of the projection: the clamp without the division by the sum
MutProjectOntoSimplex(w) ==
  <<ClampWeight(w[1]), ClampWeight(w[2]), ClampWeight(w[3]), ClampWeight(w[4])>>

\* "weights[i] < MIN_WEIGHT_VALUE ? MIN_WEIGHT_VALUE : weights[i]", then "/= sum"
project_onto_simplex(w) ==
  LET c == <<ClampWeight(w[1]), ClampWeight(w[2]), ClampWeight(w[3]), ClampWeight(w[4])>>
  IN Normalise4(c, Sum4(c))

\* base (1 + 0.5 (confidence - 0.25))
TargetWeight(base, confidence) ==
  MulMicro(base, 1000000 + (confidence - 250000) \div 2)

\* w -= LYAPUNOV_ETA (diff + LYAPUNOV_BETA diff), that is 0.011 diff
GradientStep(w, target) == w - (11 * (w - target)) \div 1000

metrics_update_stellar_weights(g, m) ==
  LET g1   == metrics_update_variance_estimates(g, m)
      conf == metrics_compute_entropy_confidence(g1.variance)
      tgt  == project_onto_simplex(
                << TargetWeight(StellarWeights[1], conf[1]),
                   TargetWeight(StellarWeights[2], conf[2]),
                   TargetWeight(StellarWeights[3], conf[3]),
                   TargetWeight(StellarWeights[4], conf[4]) >>)
      w    == << GradientStep(g.weights[1], tgt[1]), GradientStep(g.weights[2], tgt[2]),
                 GradientStep(g.weights[3], tgt[3]), GradientStep(g.weights[4], tgt[4]) >>
  IN [ g1 EXCEPT !.weights = project_onto_simplex(w) ]

ElectionNow == 17 * Quantum       \* the uptime at which the election is called

\* own metrics: healthy; healthy or middling with a week of uptime; low
\* battery with middling trust and link quality
Veteran  == [Healthy EXCEPT !.base_uptime = UPTIME_MAX_SECONDS]
Seasoned == [Weak EXCEPT !.base_uptime = UPTIME_MAX_SECONDS]
Uneven  == [battery |-> 1000, trust |-> 5000, link_quality |-> 5000, base_uptime |-> 0]
ElectionSelves   == {100, 250}
ElectionProfiles == {Healthy, Veteran, Seasoned, Uneven}

\* what a neighbor's beacons left in the table: <<rssi, battery, trust, link>>
PeerReadings ==
  { <<-60, 9000, 9000, 9000>>,      \* strong in everything
    <<-60, 9000, 4000, 1000>>,      \* strong battery, poor link
    <<-60, 1000, 7526, 5000>>,      \* weak battery, good trust
    <<-90, 9000, 9000, 9000>>,      \* outside the cluster radius
    <<-60, 9000, 1500, 9000>> }     \* trust under TRUST_FLOOR
ElectionPeerIds == {200, 300, 400}

PeerEntry(id, r) == NewEntry(0, id, r[1], 0, r[2], r[3], r[4], FALSE, 0)

SnapshotIds == {election_snapshot[i].node_id : i \in 1..Len(election_snapshot)}

\* the candidates of the election that the log is about
ElCandidates ==
  BuildCandidates(election_self, election_metrics, ElectionNow, election_snapshot)

\* neighbor_manager_update adds an entry before the first election
ElectionHear(id, r) ==
  /\ election_log = <<>>
  /\ Len(election_snapshot) < MaxElectionPeers
  /\ id \notin SnapshotIds
  /\ election_snapshot' = Append(election_snapshot, PeerEntry(id, r))
  /\ UNCHANGED <<now, smVars, bleVars, tableVars, envVars, replayVars, compVars, rxVars,
                 schedVars, election_self, election_metrics, g_stellar_weights,
                 election_log>>

\* election_run: metrics_update_stellar_weights(), then the selection
ElectionRun ==
  LET g  == metrics_update_stellar_weights(g_stellar_weights, election_metrics)
      c  == ElCandidates
  IN
  /\ Len(election_log) < MaxElectionRuns
  /\ g_stellar_weights' = g
  /\ election_log' = Append(election_log,
       [ winner |-> election_run_stellar(g.weights, election_self, election_metrics,
                                         ElectionNow, election_snapshot),
         nash |-> nash_bargaining_selection(g.weights, c),
         weights |-> g.weights ])
  /\ UNCHANGED <<now, smVars, bleVars, tableVars, envVars, replayVars, compVars, rxVars,
                 schedVars, election_self, election_metrics, election_snapshot>>

InitElection ==
  /\ now = 0
  /\ boot_at = [n \in Node |-> IF n = SELF THEN 0 ELSE -1]
  /\ SmInit /\ BleInit /\ TableInit /\ EnvInit /\ ReplayInit /\ RxInit /\ SchedInit
  /\ CompInit
  /\ election_self \in ElectionSelves
  /\ election_metrics \in ElectionProfiles
  /\ election_snapshot = <<>>
  /\ g_stellar_weights = WeightsInit
  /\ election_log = <<>>

NextElection ==
  \/ \E id \in ElectionPeerIds, r \in PeerReadings : ElectionHear(id, r)
  \/ ElectionRun

SpecElection == InitElection /\ [][NextElection]_vars

\* the stellar_score of candidate i in the k-th call
ElScore(k, i) == CandidateScore(election_log[k].weights, ElCandidates, i)

\* C14 (as stated): when a candidate has the same utilities and the same score
\* as the winner, the winner is the one with the lower node_id, whatever the
\* order in which the candidates were collected.
TieGoesToLowestId ==
  \A k \in 1..Len(election_log) :
    \A i, j \in 1..Len(ElCandidates) :
      ( /\ ElCandidates[i].node_id = election_log[k].winner
        /\ ElCandidates[j].u = ElCandidates[i].u
        /\ ElScore(k, j) = ElScore(k, i) )
        => ElCandidates[i].node_id <= ElCandidates[j].node_id

\* some other candidate is at least as good in all four utilities and better in one
Dominated(c, i) ==
  \E j \in 1..Len(c) :
    /\ \A d \in 1..4 : c[j].u[d] >= c[i].u[d]
    /\ \E d \in 1..4 : c[j].u[d] > c[i].u[d]

\* C15: after the Pareto phase no candidate marked on_pareto_frontier is
\* dominated by another candidate, and a winner that Nash bargaining yields
\* is marked on the frontier.
ParetoPhaseCorrect ==
  \A k \in 1..Len(election_log) :
    /\ \A i \in 1..Len(ElCandidates) :
         OnFrontier(ElCandidates, i) => ~Dominated(ElCandidates, i)
    /\ election_log[k].nash # 0 =>
         \E i \in 1..Len(ElCandidates) :
           /\ ElCandidates[i].node_id = election_log[k].nash
           /\ OnFrontier(ElCandidates, i)

\* C15 witness: Nash bargaining has yielded a winner in an election in which
\* one neighbor was dominated and another was on the frontier.
NashWinnerAmongDominated ==
  /\ Len(election_log) > 0
  /\ election_log[1].nash # 0
  /\ Len(ElCandidates) = 3
  /\ \E i \in 1..Len(ElCandidates) : Dominated(ElCandidates, i)
  /\ \E i \in 1..Len(ElCandidates) : i > 1 /\ ~Dominated(ElCandidates, i)

\* C16 (as stated): with the neighbor snapshot and the node's own metrics held
\* fixed, every call of election_run returns the winner the first call returned.
ElectionIdempotent ==
  \A i \in 1..Len(election_log) : election_log[i].winner = election_log[1].winner

\* C17: the winner of an election is the node itself or a neighbor of the
\* snapshot with rssi_ewma >= CLUSTER_RADIUS_RSSI_THRESHOLD, verified, and with
\* trust >= TRUST_FLOOR.
WinnerEligible ==
  \A k \in 1..Len(election_log) :
    \/ election_log[k].winner = election_self
    \/ \E i \in 1..Len(election_snapshot) :
         /\ election_snapshot[i].node_id = election_log[k].winner
         /\ election_snapshot[i].rssi_ewma >= CLUSTER_RADIUS_RSSI_THRESHOLD
         /\ election_snapshot[i].verified
         /\ election_snapshot[i].trust >= TRUST_FLOOR

\* C17 witness: a neighbor has won an election whose snapshot also held a
\* neighbor of little trust with the better battery and link quality.
UntrustedNeighborPassedOver ==
  /\ Len(election_log) > 0
  /\ election_log[1].winner # election_self
  /\ \E i, j \in 1..Len(election_snapshot) :
       /\ election_snapshot[i].node_id = election_log[1].winner
       /\ election_snapshot[j].trust < TRUST_FLOOR
       /\ election_snapshot[j].rssi_ewma >= CLUSTER_RADIUS_RSSI_THRESHOLD
       /\ election_snapshot[j].battery >= election_snapshot[i].battery
       /\ election_snapshot[j].link_quality > election_snapshot[i].link_quality

----------------------------------------------------------------------------
(* SpecSched: the time-slicing scheduler of a CH (node 100) and the slot     *)
(* tests of one member (node 200), one tick of each per clock period.        *)

CYCLE_MS              == 10000   \* "now_ms - last_schedule_broadcast >= 10000"
EPOCH_LEAD_MS         == 5000    \* "esp_timer_get_time() + 5000000"
SCHED_SLOT_SEC        == 1       \* "sched.slot_duration_sec = 1"
SLOT_DURATION_SEC     == 10
PAYLOAD_FRESH_MS      == 60000   \* "sched.epoch_us > (now_us - 60000000)"
SLOT_SEND_GAP_MS      == 2000    \* "(now_us - (last_data_send * 1000)) > 2000000"
FALLBACK_PERIOD_MS    == 1000    \* "(now_ms - last_data_send) >= 1000"
SCHED_MEMBER          == CHOOSE n \in Node : n # SELF   \* the member whose cache is modelled

\* link_quality * 100 + (100 - battery * 100), scaled by 100
Priority(e) == e.link_quality + (10000 - e.battery)

\* a mutant of the comparison: the lower priority sorts first
MutComparePriority(a, b) ==
  IF Priority(b) < Priority(a) THEN 1
  ELSE IF Priority(b) > Priority(a) THEN -1
  ELSE 0

compare_priority(a, b) ==
  IF Priority(b) > Priority(a) THEN 1
  ELSE IF Priority(b) < Priority(a) THEN -1
  ELSE 0

\* what qsort may leave: no element stands before one that compares before it;
\* the order of elements that compare equal is not defined.  The orders of
\* the indices in S, built from the front: the first compares before or equal
\* to all the others
RECURSIVE SortedOrders(_, _)
SortedOrders(nb, S) ==
  IF S = {} THEN {<<>>}
  ELSE UNION { { <<i>> \o p : p \in SortedOrders(nb, S \ {i}) } :
                 i \in {x \in S : \A y \in S : compare_priority(nb[x], nb[y]) <= 0} }

QsortResults(nb) == SortedOrders(nb, 1..Len(nb))

\* a mutant of the slot numbering: every neighbor is given slot 0
MutScheduleMsg(to, epoch, slot_index) ==
  [to |-> to, epoch |-> epoch, slot_index |-> 0,
   slot_duration_sec |-> SCHED_SLOT_SEC]

ScheduleMsg(to, epoch, slot_index) ==
  [to |-> to, epoch |-> epoch, slot_index |-> slot_index,
   slot_duration_sec |-> SCHED_SLOT_SEC]

\* beacons with <<rssi, battery, trust, link quality>>, before the first round
\* the last one is heard below CLUSTER_RADIUS_RSSI_THRESHOLD
SchedReadings ==
  {<<-60, 1000, 9000, 9000>>, <<-60, 5000, 9000, 5000>>, <<-60, 9000, 9000, 9000>>,
   <<-90, 9000, 9000, 9000>>}

SchedHear(id, r) ==
  /\ now = 0 /\ ~sched_ticked.ch
  /\ Len(neighbor_table[SELF]) < MaxSchedPeers
  /\ FindEntry(neighbor_table[SELF], id) = 0
  /\ neighbor_table' = [neighbor_table EXCEPT ![SELF] = Append(@, PeerEntry(id, r))]
  /\ UNCHANGED <<now, smVars, bleVars, ch_result, ch_fresh, trust_updates, envVars,
                 replayVars, extVars>>

\* the scheduler block of the CH case of state_machine_run
ChSchedulerStep ==
  LET nb == neighbor_table[SELF] IN
  /\ ~sched_ticked.ch
  /\ IF /\ now - last_schedule_broadcast >= CYCLE_MS
        /\ Len(nb) > 0
        /\ sched_round.count < MaxSchedRounds
       THEN /\ \E p \in QsortResults(nb) :
                 sched_round' =
                   [ count |-> sched_round.count + 1, at |-> now, snapshot |-> nb,
                     msgs |-> [i \in 1..Len(nb) |->
                                 ScheduleMsg(nb[p[i]].node_id, now + EPOCH_LEAD_MS, i - 1)] ]
            /\ last_schedule_broadcast' = now
       ELSE UNCHANGED <<sched_round, last_schedule_broadcast>>
  /\ sched_ticked' = [sched_ticked EXCEPT !.ch = TRUE]
  /\ UNCHANGED <<now, smVars, bleVars, tableVars, envVars, replayVars, compVars, rxVars, elVars,
                 current_schedule, last_data_send, slot_log>>

\* the member caches the latest Schedule addressed to it; a message may be lost
SchedDeliver(i) ==
  /\ sched_ticked.ch /\ ~sched_ticked.member
  /\ sched_round.count > 0 /\ sched_round.at = now
  /\ sched_round.msgs[i].to = SCHED_MEMBER
  /\ current_schedule.epoch # sched_round.msgs[i].epoch
  /\ current_schedule' =
       [ magic |-> TRUE, epoch |-> sched_round.msgs[i].epoch,
         slot_index |-> sched_round.msgs[i].slot_index,
         slot_duration_sec |-> sched_round.msgs[i].slot_duration_sec ]
  /\ UNCHANGED <<now, smVars, bleVars, tableVars, envVars, replayVars, compVars, rxVars, elVars,
                 last_schedule_broadcast, sched_round, last_data_send, slot_log,
                 sched_ticked>>

SlotStart(s) == s.epoch + s.slot_index * s.slot_duration_sec * 1000
SlotEnd(s)   == SlotStart(s) + s.slot_duration_sec * 1000
InWindow(s, t) == t >= SlotStart(s) /\ t < SlotEnd(s)

\* state_machine.c:410-411
PayloadFresh(s, t) == s.magic /\ s.epoch > t - PAYLOAD_FRESH_MS

\* state_machine.c:467-468
BurstFresh(s, t) == s.magic /\ s.epoch > t - SLOT_DURATION_SEC * 10000

\* state_machine.c:410-432
CanSend(s, t, last) ==
  IF PayloadFresh(s, t) THEN InWindow(s, t) /\ t - last > SLOT_SEND_GAP_MS
  ELSE t - last >= FALLBACK_PERIOD_MS

\* the data send and the slot test of the burst in the MEMBER case of
\* state_machine_run, for a member that has a CH, valid data and a working link
MemberSlotStep ==
  LET s == current_schedule
      can_send == CanSend(s, now, last_data_send)
  IN
  /\ sched_ticked.ch /\ ~sched_ticked.member
  /\ last_data_send' = IF can_send THEN now ELSE last_data_send
  /\ slot_log' = [ ran |-> TRUE,
                   payload_fresh |-> PayloadFresh(s, now),
                   payload_in_slot |-> PayloadFresh(s, now) /\ InWindow(s, now),
                   can_send |-> can_send,
                   burst_fresh |-> BurstFresh(s, now),
                   burst_in_slot |-> BurstFresh(s, now) /\ InWindow(s, now) ]
  /\ sched_ticked' = [sched_ticked EXCEPT !.member = TRUE]
  /\ UNCHANGED <<now, smVars, bleVars, tableVars, envVars, replayVars, compVars, rxVars, elVars,
                 last_schedule_broadcast, sched_round, current_schedule>>

SchedAdvance ==
  /\ sched_ticked.ch /\ sched_ticked.member
  /\ now < SchedMaxTime
  /\ now' = now + Quantum
  /\ sched_ticked' = [ch |-> FALSE, member |-> FALSE]
  /\ slot_log' = NoSlot
  /\ UNCHANGED <<smVars, bleVars, tableVars, envVars, replayVars, compVars, rxVars, elVars,
                 last_schedule_broadcast, sched_round, current_schedule,
                 last_data_send>>

InitSched ==
  /\ now = 0
  /\ boot_at = [n \in Node |-> 0]
  /\ SmInit /\ BleInit /\ TableInit /\ EnvInit /\ ReplayInit /\ ExtInit

NextSched ==
  \/ \E id \in ElectionPeerIds, r \in SchedReadings : SchedHear(id, r)
  \/ ChSchedulerStep
  \/ \E i \in 1..Len(sched_round.msgs) : SchedDeliver(i)
  \/ MemberSlotStep
  \/ SchedAdvance

SpecSched == InitSched /\ [][NextSched]_vars

\* the slot index that the last round gave to neighbor id (the set of them)
SlotsOf(id) ==
  {sched_round.msgs[k].slot_index :
     k \in {x \in 1..Len(sched_round.msgs) : sched_round.msgs[x].to = id}}

\* C19: a scheduling round gives every neighbor of the snapshot exactly one
\* slot index, the indices are 0..n-1 without repetition, all messages carry
\* the same epoch, and a neighbor of higher priority never gets a larger
\* index than one of lower priority.
SlotsFollowPriority ==
  sched_round.count > 0 =>
    LET nb   == sched_round.snapshot
        msgs == sched_round.msgs
        n    == Len(nb)
    IN
    /\ Len(msgs) = n
    /\ \A i \in 1..n :
         Cardinality({k \in 1..Len(msgs) : msgs[k].to = nb[i].node_id}) = 1
    /\ {msgs[k].slot_index : k \in 1..Len(msgs)} = 0..(n - 1)
    /\ \A k \in 1..Len(msgs) : msgs[k].epoch = msgs[1].epoch
    /\ \A i, j \in 1..n :
         Priority(nb[i]) > Priority(nb[j]) =>
           \A a \in SlotsOf(nb[i].node_id), b \in SlotsOf(nb[j].node_id) : a <= b

\* C19 witness: a round over two neighbors in which the one that stood second
\* in the table had the higher priority and was given slot 0.
SortMovedNeighbor ==
  /\ sched_round.count > 0
  /\ Len(sched_round.snapshot) = 2
  /\ Priority(sched_round.snapshot[2]) > Priority(sched_round.snapshot[1])
  /\ sched_round.msgs[1].to = sched_round.snapshot[2].node_id
  /\ sched_round.msgs[1].slot_index = 0

\* the claimed test: inside the slot's window, the schedule no older than
\* CYCLE_MS * 10
InSlotAsClaimed(s, t) ==
  /\ s.magic
  /\ InWindow(s, t)
  /\ t - s.epoch <= CYCLE_MS * 10

\* C20 (as stated): the member is in its slot exactly when now is inside the
\* slot's window and the schedule is no older than CYCLE_MS * 10, and the
\* payload send and the history burst apply this same test with the same
\* freshness bound.
SlotTestShared ==
  slot_log.ran =>
    /\ slot_log.burst_in_slot = InSlotAsClaimed(current_schedule, now)
    /\ slot_log.payload_in_slot = InSlotAsClaimed(current_schedule, now)
    /\ slot_log.payload_fresh = slot_log.burst_fresh

\* the part of C20 that holds: both paths agree with the claimed test on
\* whether the member is in its slot
InSlotTestsAgree ==
  slot_log.ran =>
    /\ slot_log.burst_in_slot = InSlotAsClaimed(current_schedule, now)
    /\ slot_log.payload_in_slot = InSlotAsClaimed(current_schedule, now)

\* C21: every Schedule message of a round is addressed to a neighbor of the
\* round's snapshot that is within the cluster radius; a neighbor outside the
\* radius is never assigned a slot.
ScheduleOnlyInCluster ==
  \A k \in 1..Len(sched_round.msgs) :
    \E i \in 1..Len(sched_round.snapshot) :
      /\ sched_round.snapshot[i].node_id = sched_round.msgs[k].to
      /\ neighbor_manager_is_in_cluster(sched_round.snapshot[i])

\* the part of C21 that holds: a slot goes only to a neighbor of the snapshot
ScheduleOnlyToSnapshot ==
  \A k \in 1..Len(sched_round.msgs) :
    \E i \in 1..Len(sched_round.snapshot) :
      sched_round.snapshot[i].node_id = sched_round.msgs[k].to

----------------------------------------------------------------------------
(* SpecLog: the log pipeline (components/logger/logger.c).  Task "app"       *)
(* appends lines and flushes, task "aux" flushes.  A call is a sequence of  *)
(* steps; each step is one access to the buffer, the mutex or the files.    *)
(* File operations succeed and the buffer was allocated by logger_init.     *)
(* The files are those a former run left on the partition.                  *)

LOGGER_BLOCK_CAP            == 16384
LOGGER_FLUSH_THRESHOLD      == 16384
LOGGER_MIN_COMPRESS_BYTES   == 1024
LOGGER_MIN_SAVINGS_DIV      == 20
LOGGER_MAX_FILE_SIZE        == 1048576
LOGGER_STORAGE_CRITICAL_PCT == 95
\* sizeof(log_chunk_hdr_t), packed
CHUNK_HDR_SIZE              == 36

\* "bool use_compression = false; // DEBUG: Disable compression ..."
use_compression == FALSE

\* esp_spiffs_info: the bytes in use
SpiffsUsed(fs, sp) == sp.other + fs.current.size + fs.old.size + fs.backup.size

\* "(used * 100) / total"
UsedPct(fs, sp) == (SpiffsUsed(fs, sp) * 100) \div sp.total

logger_storage_critical(fs, sp) ==
  IF sp.total = 0 THEN FALSE ELSE UsedPct(fs, sp) >= LOGGER_STORAGE_CRITICAL_PCT

check_storage_and_cleanup(fs, sp) ==
  IF sp.total = 0 THEN fs
  ELSE IF UsedPct(fs, sp) >= LOGGER_STORAGE_CRITICAL_PCT
    THEN LET f1 == [fs EXCEPT !.backup = NoFile] IN
         IF UsedPct(f1, sp) >= LOGGER_STORAGE_CRITICAL_PCT
           THEN [f1 EXCEPT !.old = NoFile]
           ELSE f1
  ELSE fs

\* a mutant of the rotation: the old file is overwritten, not kept as backup
MutRotateLogFile(fs, incoming_bytes) ==
  IF ~fs.current.exists THEN fs
  ELSE IF fs.current.size + incoming_bytes < LOGGER_MAX_FILE_SIZE THEN fs
  ELSE [current |-> NoFile, old |-> fs.current, backup |-> NoFile]

\* remove(backup); rename(old, backup); rename(current, old)
rotate_log_file(fs, incoming_bytes) ==
  IF ~fs.current.exists THEN fs
  ELSE IF fs.current.size + incoming_bytes < LOGGER_MAX_FILE_SIZE THEN fs
  ELSE [current |-> NoFile, old |-> fs.current, backup |-> fs.old]

Chunk(algo, raw_len, data_len, lines) ==
  [algo |-> algo, raw_len |-> raw_len, data_len |-> data_len, lines |-> lines]

\* fopen(LOGGER_DEFAULT_PATH, "ab"), fwrite of the header and the payload
AppendChunk(fs, c) ==
  [fs EXCEPT !.current =
     [ exists |-> TRUE, base |-> @.base,
       size |-> @.size + CHUNK_HDR_SIZE + c.data_len,
       chunks |-> Append(@.chunks, c) ]]

write_chunk_raw(fs, sp, raw_len, lines) ==
  AppendChunk(rotate_log_file(check_storage_and_cleanup(fs, sp),
                              CHUNK_HDR_SIZE + raw_len),
              Chunk(0, raw_len, raw_len, lines))

\* packed is the length lz_compress_miniz returns for the payload
write_chunk_miniz(fs, sp, raw_len, packed, lines) ==
  IF raw_len < LOGGER_MIN_COMPRESS_BYTES
    THEN write_chunk_raw(fs, sp, raw_len, lines)
  ELSE IF packed + CHUNK_HDR_SIZE >= raw_len - (raw_len \div LOGGER_MIN_SAVINGS_DIV)
    THEN write_chunk_raw(fs, sp, raw_len, lines)
  ELSE AppendChunk(rotate_log_file(check_storage_and_cleanup(fs, sp),
                                   CHUNK_HDR_SIZE + packed),
                   Chunk(1, raw_len, packed, lines))

\* the write of logger_flush
FlushChunk(fs, sp, bb) ==
  IF use_compression
    THEN write_chunk_miniz(fs, sp, bb.len, bb.packed, bb.lines)
    ELSE write_chunk_raw(fs, sp, bb.len, bb.lines)

\* a mutant of the mutex: it is handed out while another task holds it
MutMutexFree(m) == TRUE

\* xSemaphoreTake succeeds when no task holds the mutex
MutexFree(m) == m = "free"

\* the lines of the model: <<strlen, length lz_compress_miniz would leave>>;
\* the last one does not fit the buffer
LineKinds == {<<100, 40>>, <<8191, 2000>>, <<20000, 5000>>}

\* what the partition holds when the logger starts: the log files of a
\* former run (none; the current file; with the old file; with old and
\* backup) and the bytes of everything else.  The current file is one chunk
\* of 8192 bytes short of LOGGER_MAX_FILE_SIZE.
PriorCurrent == [exists |-> TRUE, base |-> 1, size |-> 1040348, chunks |-> <<>>]
PriorOld     == [exists |-> TRUE, base |-> 2, size |-> 1045000, chunks |-> <<>>]
PriorBackup  == [exists |-> TRUE, base |-> 3, size |-> 1046000, chunks |-> <<>>]
PriorFiles ==
  { NoFiles,
    [current |-> PriorCurrent, old |-> NoFile, backup |-> NoFile],
    [current |-> PriorCurrent, old |-> PriorOld, backup |-> NoFile],
    [current |-> PriorCurrent, old |-> PriorOld, backup |-> PriorBackup] }
\* with 1899200 bytes, the current and the old file, usage is 137 bytes
\* below 95 %
SpiffsStates ==
  [total : {4194304}, other : {100000, 900000, 1899200, 1950000, 3000000}]

\* the logger touches nothing else
LogFrame ==
  UNCHANGED <<now, smVars, bleVars, tableVars, envVars, replayVars, rxVars, elVars,
              schedVars, huf, upt, weight_log, concVars>>

\* the task goes on after its logger_flush returned fr
Resume(tk, fr) ==
  IF tk.cont = "room" /\ fr # "ESP_OK" THEN [IdleTask EXCEPT !.fr = fr]
  ELSE IF tk.cont = "room" THEN [tk EXCEPT !.stage = "buffer", !.fr = fr]
  ELSE IF tk.cont = "return" THEN [IdleTask EXCEPT !.fr = fr]
  ELSE [tk EXCEPT !.stage = tk.cont, !.fr = fr]

\* the task's new position; a returning logger_append_line is noted
SetTask(t, tk, h) ==
  /\ log_task' = [log_task EXCEPT ![t] = tk]
  /\ log_hist' =
       IF tk.stage = "idle" /\ log_task[t].line.id # 0
         THEN [h EXCEPT !.last_append =
                 [@ EXCEPT !.done = TRUE, !.ret = tk.fr,
                           !.backup_left = log_files'.backup.exists,
                           !.old_left = log_files'.old.exists]]
         ELSE h

NoteWrite(h, flush, before, after, raw_len, packed, lines) ==
  [h EXCEPT !.written = @ \o lines,
            !.last_write = [ valid |-> TRUE, flush |-> flush, before |-> before,
                             after |-> after, raw_len |-> raw_len,
                             packed |-> packed, lines |-> lines ]]

\* logger_append_line up to "if (logger_storage_critical())"
LogCallAppend(t, k) ==
  LET line == [id |-> log_hist.appended + 1, n |-> k[1], packed |-> k[2]]
      crit == logger_storage_critical(log_files, spiffs)
      h    == [log_hist EXCEPT !.appended = @ + 1,
                               !.last_append = [NoAppend EXCEPT !.valid = TRUE,
                                                                !.id = line.id,
                                                                !.critical = crit]]
  IN
  /\ t = "app"
  /\ log_task[t].stage = "idle"
  /\ log_files' = log_files
  /\ log_hist.appended < MaxAppends
  /\ SetTask(t, [ stage |-> IF crit THEN "flush_check" ELSE "route", line |-> line,
                  cont |-> IF crit THEN "clear_remove" ELSE "none", fr |-> "ESP_OK" ], h)
  /\ UNCHANGED <<s_bb, s_flush_mutex, spiffs>>
  /\ LogFrame

\* logger_clear after its flush: remove(LOGGER_DEFAULT_PATH)
LogClearRemove(t) ==
  /\ log_task[t].stage = "clear_remove"
  /\ log_files' = [log_files EXCEPT !.current = NoFile]
  /\ SetTask(t, [log_task[t] EXCEPT !.stage = "route", !.cont = "none"],
             [log_hist EXCEPT !.last_clear =
                [ valid |-> TRUE, backup_existed |-> log_files.backup.exists,
                  old_existed |-> log_files.old.exists,
                  pct |-> UsedPct(log_files, spiffs) ]])
  /\ UNCHANGED <<s_bb, s_flush_mutex, spiffs>>
  /\ LogFrame

\* "need > s_bb.cap", "s_bb.len + need > s_bb.cap"
LogRoute(t) ==
  LET need == log_task[t].line.n + 1 IN
  /\ log_task[t].stage = "route"
  /\ log_files' = log_files
  /\ SetTask(t, IF need > LOGGER_BLOCK_CAP
                  THEN [log_task[t] EXCEPT !.stage = "flush_check", !.cont = "oversize_line"]
                ELSE IF s_bb.len + need > LOGGER_BLOCK_CAP
                  THEN [log_task[t] EXCEPT !.stage = "flush_check", !.cont = "room"]
                ELSE [log_task[t] EXCEPT !.stage = "buffer"],
             log_hist)
  /\ UNCHANGED <<s_bb, s_flush_mutex, spiffs>>
  /\ LogFrame

\* the two blockbuf_append calls and the threshold test
LogBuffer(t) ==
  LET line == log_task[t].line
      need == line.n + 1
  IN
  /\ log_task[t].stage = "buffer"
  /\ log_files' = log_files
  /\ IF s_bb.len + need > LOGGER_BLOCK_CAP
       THEN /\ SetTask(t, [IdleTask EXCEPT !.fr = "ESP_FAIL"], log_hist)
            /\ UNCHANGED s_bb
       ELSE /\ s_bb' = [ len |-> s_bb.len + need, packed |-> s_bb.packed + line.packed,
                         lines |-> Append(s_bb.lines, line.id) ]
            /\ SetTask(t, IF s_bb.len + need >= LOGGER_FLUSH_THRESHOLD
                            THEN [log_task[t] EXCEPT !.stage = "flush_check",
                                                     !.cont = "return"]
                            ELSE IdleTask,
                       log_hist)
  /\ UNCHANGED <<s_flush_mutex, spiffs>>
  /\ LogFrame

\* write_chunk_raw((const uint8_t *)line, n)
LogOversizeLine(t) ==
  LET line  == log_task[t].line
      after == write_chunk_raw(log_files, spiffs, line.n, <<line.id>>)
  IN
  /\ log_task[t].stage = "oversize_line"
  /\ log_files' = after
  /\ SetTask(t, [log_task[t] EXCEPT !.stage = "oversize_nl"],
             [NoteWrite(log_hist, FALSE, log_files, after, line.n, line.packed,
                        <<line.id>>)
                EXCEPT !.oversize = @ \cup {line.id}])
  /\ UNCHANGED <<s_bb, s_flush_mutex, spiffs>>
  /\ LogFrame

\* write_chunk_raw((const uint8_t *)"\n", 1)
LogOversizeNl(t) ==
  LET after == write_chunk_raw(log_files, spiffs, 1, <<>>) IN
  /\ log_task[t].stage = "oversize_nl"
  /\ log_files' = after
  /\ SetTask(t, IdleTask, NoteWrite(log_hist, FALSE, log_files, after, 1, 1, <<>>))
  /\ UNCHANGED <<s_bb, s_flush_mutex, spiffs>>
  /\ LogFrame

\* a user of the logger calls logger_flush
LogCallFlush(t) ==
  /\ log_task[t].stage = "idle"
  /\ log_files' = log_files
  /\ log_hist.flush_calls < MaxFlushCalls
  /\ SetTask(t, [IdleTask EXCEPT !.stage = "flush_check", !.cont = "return"],
             [log_hist EXCEPT !.flush_calls = @ + 1])
  /\ UNCHANGED <<s_bb, s_flush_mutex, spiffs>>
  /\ LogFrame

\* "if (!s_bb.buf || s_bb.len == 0) return ESP_OK;"
LogFlushCheck(t) ==
  /\ log_task[t].stage = "flush_check"
  /\ log_files' = log_files
  /\ SetTask(t, IF s_bb.len = 0 THEN Resume(log_task[t], "ESP_OK")
                ELSE [log_task[t] EXCEPT !.stage = "flush_take"],
             log_hist)
  /\ UNCHANGED <<s_bb, s_flush_mutex, spiffs>>
  /\ LogFrame

\* xSemaphoreTake(s_flush_mutex, pdMS_TO_TICKS(5000)) == pdTRUE
LogFlushTake(t) ==
  /\ log_task[t].stage = "flush_take"
  /\ MutexFree(s_flush_mutex)
  /\ s_flush_mutex' = t
  /\ SetTask(t, [log_task[t] EXCEPT !.stage = "flush_write"], log_hist)
  /\ UNCHANGED <<s_bb, log_files, spiffs>>
  /\ LogFrame

\* the wait of 5000 ms ends while another task still holds the mutex
LogFlushTimeout(t) ==
  /\ log_task[t].stage = "flush_take"
  /\ ~MutexFree(s_flush_mutex)
  /\ log_files' = log_files
  /\ SetTask(t, Resume(log_task[t], "ESP_ERR_TIMEOUT"), log_hist)
  /\ UNCHANGED <<s_bb, s_flush_mutex, spiffs>>
  /\ LogFrame

\* ret = write_chunk_raw(s_bb.buf, s_bb.len)
LogFlushWrite(t) ==
  LET after == FlushChunk(log_files, spiffs, s_bb) IN
  /\ log_task[t].stage = "flush_write"
  /\ log_files' = after
  /\ SetTask(t, [log_task[t] EXCEPT !.stage = "flush_clear"],
             NoteWrite(log_hist, TRUE, log_files, after, s_bb.len, s_bb.packed,
                       s_bb.lines))
  /\ UNCHANGED <<s_bb, s_flush_mutex, spiffs>>
  /\ LogFrame

\* "if (ret == ESP_OK) s_bb.len = 0;  xSemaphoreGive(s_flush_mutex);"
LogFlushClear(t) ==
  /\ log_task[t].stage = "flush_clear"
  /\ s_bb' = [len |-> 0, packed |-> 0, lines |-> <<>>]
  /\ s_flush_mutex' = "free"
  /\ log_files' = log_files
  /\ SetTask(t, Resume(log_task[t], "ESP_OK"), log_hist)
  /\ UNCHANGED spiffs
  /\ LogFrame

LogStep(t) ==
  \/ \E k \in LineKinds : LogCallAppend(t, k)
  \/ LogClearRemove(t)
  \/ LogRoute(t)
  \/ LogBuffer(t)
  \/ LogOversizeLine(t)
  \/ LogOversizeNl(t)
  \/ LogCallFlush(t)
  \/ LogFlushCheck(t)
  \/ LogFlushTake(t)
  \/ LogFlushTimeout(t)
  \/ LogFlushWrite(t)
  \/ LogFlushClear(t)

InitLog ==
  /\ now = 0
  /\ boot_at = [n \in Node |-> IF n = SELF THEN 0 ELSE -1]
  /\ SmInit /\ BleInit /\ TableInit /\ EnvInit /\ ReplayInit
  /\ RxInit /\ ElInit /\ SchedInit
  /\ s_bb = [len |-> 0, packed |-> 0, lines |-> <<>>]
  /\ s_flush_mutex = "free"
  /\ log_files \in PriorFiles
  /\ spiffs \in SpiffsStates
  /\ SpiffsUsed(log_files, spiffs) <= spiffs.total
  /\ log_task = [t \in LogTask |-> IdleTask]
  /\ log_hist = NoHistory
  /\ huf = HufIdle
  /\ upt = UptimeIdle
  /\ weight_log = NoWeightUpdate
  /\ ConcInit

NextLog == \E t \in LogTask : LogStep(t)

SpecLog == InitLog /\ [][NextLog]_vars

\* the tasks that hold the flush mutex for their write
FlushWriters ==
  {t \in LogTask : log_task[t].stage \in {"flush_write", "flush_clear"}}

\* the step in which task t gives up waiting for the flush mutex
FlushGivesUp(t) ==
  /\ log_task[t].stage = "flush_take"
  /\ log_task'[t].stage # "flush_take"
  /\ s_flush_mutex' # t

\* C22: at most one flush is writing a chunk at any time, and it holds the
\* flush mutex; a flush that does not get the mutex within the bounded wait
\* returns ESP_ERR_TIMEOUT and leaves the files and the buffer as they were.
FlushSerialized ==
  /\ [](/\ Cardinality(FlushWriters) <= 1
        /\ \A t \in FlushWriters : s_flush_mutex = t)
  /\ [][\A t \in LogTask :
          FlushGivesUp(t) =>
            /\ log_task'[t].fr = "ESP_ERR_TIMEOUT"
            /\ log_files' = log_files
            /\ s_bb' = s_bb
            /\ log_hist'.written = log_hist.written]_vars

\* C22 witness: a flush has returned ESP_ERR_TIMEOUT while the flush of the
\* other task is about to write its chunk.
FlushTimedOut ==
  \E t, u \in LogTask :
    /\ t # u
    /\ log_task[t].stage = "idle"
    /\ log_task[t].fr = "ESP_ERR_TIMEOUT"
    /\ log_task[u].stage = "flush_write"

\* C23 (as stated): backup is deleted before old; the current file is cleared
\* only when usage is still at or above LOGGER_STORAGE_CRITICAL_PCT with
\* backup and old both deleted; an append that starts with usage at or above
\* LOGGER_STORAGE_CRITICAL_PCT returns ESP_OK and leaves backup and old removed.
EvictionOldestFirst ==
  /\ log_files.backup.exists => log_files.old.exists
  /\ log_hist.last_clear.valid =>
       /\ ~log_hist.last_clear.backup_existed
       /\ ~log_hist.last_clear.old_existed
       /\ log_hist.last_clear.pct >= LOGGER_STORAGE_CRITICAL_PCT
  /\ (log_hist.last_append.done /\ log_hist.last_append.critical) =>
       /\ log_hist.last_append.ret = "ESP_OK"
       /\ ~log_hist.last_append.backup_left
       /\ ~log_hist.last_append.old_left

\* the part of C23 that holds: the old file is never deleted while the backup
\* file is kept
BackupGoesFirst == log_files.backup.exists => log_files.old.exists

\* the file a rotation leaves as current, after the write of one chunk
FreshCurrent(w) ==
  [ exists |-> TRUE, base |-> 0, size |-> CHUNK_HDR_SIZE + w.raw_len,
    chunks |-> <<Chunk(0, w.raw_len, w.raw_len, w.lines)>> ]

BufferedIds == {s_bb.lines[i] : i \in 1..Len(s_bb.lines)}

\* C25: once the chunk of an oversize line is in storage, every line buffered
\* before it has been written too, so the lines reach storage in the order
\* of their appends; an oversize line is never placed in the buffer.
OversizeKeepsOrder ==
  /\ \A k \in log_hist.oversize : \A b \in BufferedIds : b > k
  /\ \A i, j \in 1..Len(log_hist.written) :
       i < j => log_hist.written[i] < log_hist.written[j]
  /\ log_hist.oversize \cap BufferedIds = {}

\* the part of C25 that holds: an oversize line is never placed in the buffer
OversizeNeverBuffered == log_hist.oversize \cap BufferedIds = {}

\* the chunk the last flush appended to the current file
LastChunk == log_hist.last_write.after.current.chunks[
               Len(log_hist.last_write.after.current.chunks)]

\* the compressor shrinks the payload by at least raw_len / MIN_SAVINGS_DIV
WorthCompressing(w) ==
  /\ w.raw_len >= LOGGER_MIN_COMPRESS_BYTES
  /\ w.raw_len - w.packed >= w.raw_len \div LOGGER_MIN_SAVINGS_DIV

\* C26: a flushed chunk is stored compressed (algo = 1) whenever raw_len >=
\* LOGGER_MIN_COMPRESS_BYTES and the compressor shrinks the payload by at
\* least raw_len / LOGGER_MIN_SAVINGS_DIV; every other chunk is stored raw
\* (algo = 0) with data_len = raw_len.
CompressionPolicy ==
  LET w == log_hist.last_write IN
  (w.valid /\ w.flush) =>
    IF WorthCompressing(w)
      THEN LastChunk.algo = 1 /\ LastChunk.data_len = w.packed
      ELSE LastChunk.algo = 0 /\ LastChunk.data_len = w.raw_len

\* what the code does: every chunk is stored raw
AlwaysRaw ==
  log_hist.last_write.valid =>
    LastChunk.algo = 0 /\ LastChunk.data_len = log_hist.last_write.raw_len

----------------------------------------------------------------------------
(* SpecHuf: the Huffman codec (components/compression/huffman.c) on every   *)
(* byte string over HufAlphabet of at most MaxHufLen bytes: the string is   *)
(* compressed into a buffer of huffman_bound bytes and the frame is         *)
(* decompressed with out_max = the length of the string.  The table of 256  *)
(* code lengths is kept for the bytes of HufAlphabet; the others are 0.     *)

HUF_MAGIC        == 1213548081
header_sz  == 264
MaxCodeLen == 32

HufAlphabet == {0, 65, 66, 255}

\* the byte strings of at most n bytes
RECURSIVE HufStrings(_)
HufStrings(n) ==
  IF n = 0 THEN {<<>>}
  ELSE LET shorter == HufStrings(n - 1) IN
       shorter \cup {Append(x, b) : x \in {y \in shorter : Len(y) = n - 1},
                                     b \in HufAlphabet}

\* "freq[in[i]]++"
HufFreq(in, s) == Cardinality({i \in 1..Len(in) : in[i] = s})

\* the symbols of a set, ascending
RECURSIVE Ascending(_)
Ascending(S) ==
  IF S = {} THEN <<>>
  ELSE LET lo == CHOOSE x \in S : \A y \in S : x <= y IN
       <<lo>> \o Ascending(S \ {lo})

\* the alive node of least frequency, the first one among equals
pick_min_node(nodes, alive) ==
  CHOOSE i \in alive :
    \A j \in alive : nodes[i].freq < nodes[j].freq
                       \/ (nodes[i].freq = nodes[j].freq /\ i <= j)

\* "while (n_alive > 1)": combine the two nodes of least frequency
RECURSIVE CombineNodes(_, _)
CombineNodes(nodes, alive) ==
  IF Cardinality(alive) <= 1 THEN nodes
  ELSE LET a == pick_min_node(nodes, alive)
           b == pick_min_node(nodes, alive \ {a})
           joined == [freq |-> nodes[a].freq + nodes[b].freq, left |-> a,
                      right |-> b, sym |-> -1]
       IN CombineNodes(Append(nodes, joined),
                       (alive \ {a, b}) \cup {Len(nodes) + 1})

\* the depth the DFS from the root finds for node i
RECURSIVE NodeDepth(_, _)
NodeDepth(nodes, i) ==
  LET above == {j \in 1..Len(nodes) : nodes[j].left = i \/ nodes[j].right = i} IN
  IF above = {} THEN 0
  ELSE 1 + NodeDepth(nodes, CHOOSE j \in above : TRUE)

HufFailed(err) == [err |-> err]

build_code_lengths(in) ==
  LET used   == Ascending({s \in HufAlphabet : HufFreq(in, s) > 0})
      leaves == [i \in 1..Len(used) |->
                   [freq |-> HufFreq(in, used[i]), left |-> 0, right |-> 0,
                    sym |-> used[i]]]
      nodes  == CombineNodes(leaves, 1..Len(used))
      depth  == [i \in 1..Len(used) |-> NodeDepth(nodes, i)]
  IN
  IF Len(used) = 0 THEN HufFailed("ESP_ERR_INVALID_ARG")
  ELSE IF Len(used) = 1
    THEN [err |-> "ESP_OK",
          lens |-> [s \in HufAlphabet |-> IF s = used[1] THEN 1 ELSE 0]]
  ELSE IF \E i \in 1..Len(used) : depth[i] > MaxCodeLen
    THEN HufFailed("ESP_ERR_INVALID_SIZE")
  ELSE [err |-> "ESP_OK",
        lens |-> [s \in HufAlphabet |->
                    IF \E i \in 1..Len(used) : used[i] = s
                      THEN depth[CHOOSE i \in 1..Len(used) : used[i] = s]
                      ELSE 0]]

\* qsort with cmp_sym_len: ascending by (len, sym); no two elements are equal
RECURSIVE SortSymLen(_, _)
SortSymLen(lens, S) ==
  IF S = {} THEN <<>>
  ELSE LET lo == CHOOSE x \in S :
                   \A y \in S : lens[x] < lens[y] \/ (lens[x] = lens[y] /\ x <= y)
       IN <<lo>> \o SortSymLen(lens, S \ {lo})

\* a mutant of the code assignment: the code is not shifted when the length grows
RECURSIVE MutAssignCodes(_, _, _, _, _)
MutAssignCodes(lens, list, i, code, prev_len) ==
  IF i > Len(list) THEN [s \in HufAlphabet |-> 0]
  ELSE [MutAssignCodes(lens, list, i + 1, code + 1, lens[list[i]])
          EXCEPT ![list[i]] = code]

\* "if (l > prev_len) code <<= (l - prev_len);  codes[sym] = code;  code++"
RECURSIVE AssignCodes(_, _, _, _, _)
AssignCodes(lens, list, i, code, prev_len) ==
  IF i > Len(list) THEN [s \in HufAlphabet |-> 0]
  ELSE LET l == lens[list[i]]
           c == IF l > prev_len THEN code * 2^(l - prev_len) ELSE code
       IN [AssignCodes(lens, list, i + 1, c + 1, IF l > prev_len THEN l ELSE prev_len)
             EXCEPT ![list[i]] = c]

build_canonical_codes(lens) ==
  LET list == SortSymLen(lens, {s \in HufAlphabet : lens[s] > 0}) IN
  IF \E s \in HufAlphabet : lens[s] > MaxCodeLen
    THEN HufFailed("ESP_ERR_INVALID_SIZE")
  ELSE IF Len(list) = 0 THEN HufFailed("ESP_ERR_INVALID_ARG")
  ELSE [err |-> "ESP_OK", codes |-> AssignCodes(lens, list, 1, 0, lens[list[1]])]

\* bitw_put_bits: the nbits low bits of the code, the highest first
CodeBits(code, nbits) == [i \in 1..nbits |-> (code \div 2^(nbits - i)) % 2]

RECURSIVE EncodeFrom(_, _, _, _)
EncodeFrom(in, i, lens, codes) ==
  IF i > Len(in) THEN <<>>
  ELSE CodeBits(codes[in[i]], lens[in[i]]) \o EncodeFrom(in, i + 1, lens, codes)

\* bitw_flush: the last byte is filled up with zero bits
PadBits(bits) == bits \o [i \in 1..((8 - (Len(bits) % 8)) % 8) |-> 0]

\* the bytes of the stream, the first bit of a byte its highest
PackBytes(bits) ==
  [k \in 1..(Len(bits) \div 8) |->
     bits[8 * k - 7] * 128 + bits[8 * k - 6] * 64 + bits[8 * k - 5] * 32
       + bits[8 * k - 4] * 16 + bits[8 * k - 3] * 8 + bits[8 * k - 2] * 4
       + bits[8 * k - 1] * 2 + bits[8 * k]]

\* bitr_get_bit over the whole stream
UnpackBits(bytes) ==
  [i \in 1..(8 * Len(bytes)) |->
     (bytes[(i + 7) \div 8] \div 2^(7 - ((i - 1) % 8))) % 2]

\* header + 32 bits for every byte; the product in_len * 32 is kept on the 32
\* bits of size_t, which is (in_len % 2^27) * 32
huffman_bound(in_len) == header_sz + (((in_len % 134217728) * 32) + 7) \div 8

huffman_compress(in, out_max) ==
  LET cl == build_code_lengths(in) IN
  IF cl.err # "ESP_OK" THEN HufFailed(cl.err)
  ELSE LET cc == build_canonical_codes(cl.lens) IN
  IF cc.err # "ESP_OK" THEN HufFailed(cc.err)
  ELSE IF out_max < header_sz THEN HufFailed("ESP_ERR_NO_MEM")
  ELSE LET data == PackBytes(PadBits(EncodeFrom(in, 1, cl.lens, cc.codes))) IN
  IF header_sz + Len(data) > out_max THEN HufFailed("ESP_ERR_NO_MEM")
  ELSE [ err |-> "ESP_OK", magic |-> HUF_MAGIC, orig_len |-> Len(in),
         lens |-> cl.lens, data |-> data, out_len |-> header_sz + Len(data) ]

\* the walk of the decode tree: the node reached is the path (plen, pcode)
RECURSIVE DecodeWalk(_, _, _, _, _, _, _)
DecodeWalk(bits, pos, plen, pcode, out, orig_len, t) ==
  IF Len(out) = orig_len THEN [err |-> "ESP_OK", out |-> out]
  ELSE IF pos > Len(bits) THEN HufFailed("ESP_ERR_INVALID_SIZE")
  ELSE LET l == plen + 1
           c == pcode * 2 + bits[pos]
           leaf == {s \in HufAlphabet : t.lens[s] = l /\ t.codes[s] = c}
           inner == {s \in HufAlphabet :
                       t.lens[s] > l /\ t.codes[s] \div 2^(t.lens[s] - l) = c}
       IN IF leaf # {}
            THEN DecodeWalk(bits, pos + 1, 0, 0, Append(out, CHOOSE s \in leaf : TRUE),
                            orig_len, t)
          ELSE IF inner # {}
            THEN DecodeWalk(bits, pos + 1, l, c, out, orig_len, t)
          ELSE HufFailed("ESP_FAIL")

huffman_decompress(frame, in_len, out_max) ==
  IF in_len < header_sz THEN HufFailed("ESP_ERR_INVALID_SIZE")
  ELSE IF frame.magic # HUF_MAGIC THEN HufFailed("ESP_ERR_INVALID_ARG")
  ELSE IF frame.orig_len > out_max THEN HufFailed("ESP_ERR_NO_MEM")
  ELSE LET cc == build_canonical_codes(frame.lens) IN
  IF cc.err # "ESP_OK" THEN HufFailed(cc.err)
  ELSE DecodeWalk(UnpackBits(frame.data), 1, 0, 0, <<>>, frame.orig_len,
                  [lens |-> frame.lens, codes |-> cc.codes])

HufCompress ==
  /\ huf.stage = "input"
  /\ huf' = [huf EXCEPT !.stage = "compressed",
                        !.frame = huffman_compress(huf.in, huffman_bound(Len(huf.in)))]
  /\ UNCHANGED <<now, smVars, bleVars, tableVars, envVars, replayVars, rxVars, elVars,
                 schedVars, logVars, upt, weight_log, concVars>>

HufDecompress ==
  /\ huf.stage = "compressed"
  /\ huf.frame.err = "ESP_OK"
  /\ huf' = [huf EXCEPT !.stage = "decompressed",
                        !.out = huffman_decompress(huf.frame, huf.frame.out_len,
                                                   Len(huf.in))]
  /\ UNCHANGED <<now, smVars, bleVars, tableVars, envVars, replayVars, rxVars, elVars,
                 schedVars, logVars, upt, weight_log, concVars>>

InitHuf ==
  /\ now = 0
  /\ boot_at = [n \in Node |-> IF n = SELF THEN 0 ELSE -1]
  /\ SmInit /\ BleInit /\ TableInit /\ EnvInit /\ ReplayInit
  /\ RxInit /\ ElInit /\ SchedInit /\ LogInit
  /\ upt = UptimeIdle
  /\ weight_log = NoWeightUpdate
  /\ ConcInit
  /\ \E x \in HufStrings(MaxHufLen) : huf = [HufIdle EXCEPT !.in = x]

NextHuf == HufCompress \/ HufDecompress

SpecHuf == InitHuf /\ [][NextHuf]_vars

----------------------------------------------------------------------------
(* SpecUptime: the cumulative uptime counter of main/metrics.c.  The metrics *)
(* task calls metrics_update about once a second; the model lets the timer   *)
(* advance by UptimeStep between calls and lets the task miss periods.  The  *)
(* node may reboot: the timer restarts and metrics_init loads the counter.   *)

UPTIME_SAVE_MS == 60000
UptimeStep     == 10 * Quantum
UptimeBases    == {0, 3600}

\* nvs_get_blob("uptime"); 0 on a first boot, which is the blob the model starts with
metrics_get_uptime(u) == u.nvs

\* nvs_set_blob("uptime", &current_metrics.uptime_seconds)
metrics_persist_uptime(u) == [u EXCEPT !.nvs = u.uptime_seconds]

\* "if (now_ms - last_uptime_save > 60000)"
SaveDue(u, now_ms) == now_ms - u.last_uptime_save > UPTIME_SAVE_MS

\* metrics_update: the uptime part
metrics_update_uptime(u) ==
  LET base_uptime == metrics_get_uptime(u)
      boot_time   == u.timer_ms \div 1000
      now_ms      == u.timer_ms
      counted     == [u EXCEPT !.uptime_seconds = base_uptime + boot_time,
                               !.updated = TRUE, !.at = u.timer_ms]
  IN IF SaveDue(u, now_ms)
       THEN [metrics_persist_uptime(counted) EXCEPT !.last_uptime_save = now_ms,
                                                    !.saves = @ + 1]
       ELSE counted

UptimeFrame ==
  UNCHANGED <<now, smVars, bleVars, tableVars, envVars, replayVars, rxVars, elVars,
              schedVars, logVars, huf, weight_log, concVars>>

UptimeTick ==
  /\ upt.timer_ms + UptimeStep <= UptimeMaxTime
  /\ upt' = [upt EXCEPT !.timer_ms = @ + UptimeStep]
  /\ UptimeFrame

\* a call of metrics_update by metrics_task, a period or more after the last one
UptimeUpdate ==
  /\ ~upt.updated \/ upt.at < upt.timer_ms
  /\ upt' = metrics_update_uptime(upt)
  /\ UptimeFrame

\* reset: esp_timer restarts, statics are zeroed, metrics_init loads the blob
UptimeReboot ==
  /\ upt.boots < MaxReboots
  /\ upt' = [upt EXCEPT !.boots = @ + 1, !.timer_ms = 0, !.last_uptime_save = 0,
                        !.loaded = metrics_get_uptime(upt),
                        !.uptime_seconds = metrics_get_uptime(upt),
                        !.updated = FALSE, !.at = 0, !.saves = 0]
  /\ UptimeFrame

InitUptime ==
  /\ now = 0
  /\ boot_at = [n \in Node |-> IF n = SELF THEN 0 ELSE -1]
  /\ SmInit /\ BleInit /\ TableInit /\ EnvInit /\ ReplayInit
  /\ RxInit /\ ElInit /\ SchedInit /\ LogInit /\ huf = HufIdle
  /\ weight_log = NoWeightUpdate
  /\ ConcInit
  /\ \E b \in UptimeBases :
       upt = [UptimeIdle EXCEPT !.nvs = b, !.loaded = b, !.uptime_seconds = b]

NextUptime == UptimeTick \/ UptimeUpdate \/ UptimeReboot

SpecUptime == InitUptime /\ [][NextUptime]_vars

\* C28 (as stated): at every metrics update uptime_seconds is the counter
\* loaded from non-volatile storage at boot plus the seconds since boot, also
\* after the counter was persisted in the current run.
UptimeCountedOnce ==
  upt.updated => upt.uptime_seconds = upt.loaded + upt.at \div 1000

\* C28: what holds: the equality holds until the first save of the run, and
\* the counter is never behind the running time.
UptimeExactUntilSaved ==
  upt.updated =>
    /\ upt.uptime_seconds >= upt.loaded + upt.at \div 1000
    /\ upt.saves = 0 => upt.uptime_seconds = upt.loaded + upt.at \div 1000

----------------------------------------------------------------------------
(* SpecWeights: the adaptive weights under every sequence of updates: the   *)
(* metrics tick (metrics_update, after new readings) and an election run    *)
(* (election_run_stellar, readings unchanged) both call                     *)
(* metrics_update_stellar_weights.                                          *)

\* battery, trust and link quality as current_metrics holds them: steady, in
\* the middle, drained, uneven, and at the ends of their ranges
Drained == [battery |-> 0, trust |-> 10000, link_quality |-> 0, base_uptime |-> 0]
Full    == [battery |-> 10000, trust |-> 0, link_quality |-> 10000, base_uptime |-> 0]
WeightReadings == {Healthy, Weak, Uneven, Drained, Full}

WeightsFrame ==
  UNCHANGED <<now, smVars, bleVars, tableVars, envVars, replayVars, rxVars, schedVars,
              logVars, huf, upt, concVars, election_self, election_snapshot,
              election_log>>

\* metrics_update: new readings, then the update of the weights
WeightsTick(m) ==
  /\ weight_log.updates < MaxWeightUpdates
  /\ election_metrics' = m
  /\ g_stellar_weights' = metrics_update_stellar_weights(g_stellar_weights, m)
  /\ weight_log' = [updates |-> weight_log.updates + 1, ticks |-> weight_log.ticks + 1,
                    by |-> "metrics_update", prior |-> g_stellar_weights.weights]
  /\ WeightsFrame

\* election_run_stellar: the update of the weights on the readings as they are
WeightsElection ==
  /\ weight_log.updates < MaxWeightUpdates
  /\ g_stellar_weights' =
       metrics_update_stellar_weights(g_stellar_weights, election_metrics)
  /\ weight_log' = [updates |-> weight_log.updates + 1, ticks |-> weight_log.ticks,
                    by |-> "election_run", prior |-> g_stellar_weights.weights]
  /\ UNCHANGED election_metrics
  /\ WeightsFrame

InitWeights ==
  /\ now = 0
  /\ boot_at = [n \in Node |-> IF n = SELF THEN 0 ELSE -1]
  /\ SmInit /\ BleInit /\ TableInit /\ EnvInit /\ ReplayInit /\ RxInit /\ SchedInit
  /\ CompInit
  /\ election_self = SELF
  /\ election_metrics \in WeightReadings
  /\ election_snapshot = <<>>
  /\ g_stellar_weights = WeightsInit
  /\ election_log = <<>>

NextWeights ==
  \/ \E m \in WeightReadings : WeightsTick(m)
  \/ WeightsElection

SpecWeights == InitWeights /\ [][NextWeights]_vars

\* C29: after every update of the adaptive weights, from the metrics tick or
\* from an election run, the four weights sum to 1 within 1e-5 and each is at
\* least MIN_WEIGHT_VALUE - 1e-6.
SimplexInvariant ==
  weight_log.updates > 0 =>
    LET w == g_stellar_weights.weights IN
    /\ Sum4(w) >= 1000000 - 10
    /\ Sum4(w) <= 1000000 + 10
    /\ \A i \in 1..4 : w[i] >= MIN_WEIGHT_VALUE - 1

\* C29: the clamp of project_onto_simplex is idle on the weights: none comes
\* within three times MIN_WEIGHT_VALUE of zero.
WeightsAboveFloor ==
  \A i \in 1..4 : g_stellar_weights.weights[i] >= 3 * MIN_WEIGHT_VALUE

\* C29 witness: an election run has updated weights that a metrics tick had
\* moved before, and the update changed them again.
WeightsAdapted ==
  /\ weight_log.updates >= 2
  /\ weight_log.ticks >= 1
  /\ weight_log.by = "election_run"
  /\ weight_log.prior # StellarWeights
  /\ g_stellar_weights.weights # weight_log.prior

----------------------------------------------------------------------------
(* SpecS1: the state machine of Spec on a node that boots with a full       *)
(* battery and the metrics metrics_init gives it (scenario S1).  The steps  *)
(* are those of Spec; the claims are about the runs in which no peer is     *)
(* heard and nothing is triggered.                                          *)

\* battery 1.0; trust and link quality 0.5 as metrics_init sets them
Charged == [battery |-> 10000, trust |-> 5000, link_quality |-> 5000, base_uptime |-> 0]

InitS1 ==
  /\ now = 0
  /\ boot_at = [n \in Node |-> IF n = SELF THEN 0 ELSE -1]
  /\ SmInit /\ BleInit /\ TableInit /\ ReplayInit /\ ExtInit
  /\ halt_at = [n \in Node |-> -1]
  /\ current_metrics = [n \in Node |-> IF n = SELF THEN Charged ELSE Healthy]
  /\ uav_runs = 0
  /\ env_events = 0

SpecS1 == InitS1 /\ [][Next]_vars

\* no beacon has been heard, the battery reading has not fallen, and neither
\* the console nor the RF receiver has triggered anything
Alone(n) ==
  /\ Running(n)
  /\ env_events = 0 /\ uav_runs = 0
  /\ Len(neighbor_table[n]) = 0
  /\ current_metrics[n].battery = 10000

SevenSeconds    == INIT_SETTLE_MS + DISCOVER_WINDOW_MS
ElectionSeconds == INIT_SETTLE_MS + DISCOVER_WINDOW_MS + ELECTION_WINDOW_MS

\* C30 (as stated): a node with a full battery that never hears a peer is in
\* CH about 7 s after boot: once INIT_SETTLE + DISCOVER_WINDOW and three ticks
\* have passed.
SingleNodeChAfterDiscover ==
  \A n \in Node :
     Alone(n) /\ now - boot_at[n] >= SevenSeconds + 3 * Quantum
       => g_current_state[n] = STATE_CH

\* C30 (amended): such a node is not CH before INIT_SETTLE + DISCOVER_WINDOW +
\* ELECTION_WINDOW_MS (17 s) have passed since boot, and is in CH from three
\* ticks after that.
SingleNodeChAfterElection ==
  \A n \in Node :
     Alone(n) =>
       /\ now - boot_at[n] >= ReachBound => g_current_state[n] = STATE_CH /\ g_is_ch[n]
       /\ became[n].ch \/ g_is_ch[n] \/ g_current_state[n] = STATE_CH
            => now - boot_at[n] >= ElectionSeconds

\* C30 witness: the lone node is CH, having entered CH more than 17 s after
\* boot, with its election won by itself.
SingleNodeIsCh ==
  /\ Alone(SELF)
  /\ g_current_state[SELF] = STATE_CH /\ g_is_ch[SELF]
  /\ pc[SELF] = "idle"
  /\ state_entry_time[SELF] - boot_at[SELF] > ElectionSeconds
  /\ now - boot_at[SELF] >= ReachBound

----------------------------------------------------------------------------
(* The cluster head a single-node cluster sees (SpecS1)                     *)

\* C31 (as stated): for a node in state CH (by election) whose neighbor table
\* is empty, neighbor_manager_get_current_ch returns the node's own id.
OwnIdIsCurrentCh ==
  \A n \in Node :
     Running(n) /\ uav_runs = 0
       /\ g_current_state[n] = STATE_CH /\ Len(neighbor_table[n]) = 0
       => neighbor_manager_get_current_ch(neighbor_table[n], now) = n

\* C31: what holds: on an empty table the result is 0, also in the tick of a
\* cluster head, which reads it after its re-election check.
NoCurrentChOnEmptyTable ==
  \A n \in Node :
     /\ Len(neighbor_table[n]) = 0
          => neighbor_manager_get_current_ch(neighbor_table[n], now) = 0
     /\ tick_info[n].st = STATE_CH /\ tick_info[n].at = now
          /\ Len(neighbor_table[n]) = 0 /\ env_events = 0
          => tick_info[n].cur_ch = 0

----------------------------------------------------------------------------
(* SpecPtr: neighbor_table[] as the array it is, with the callers that keep *)
(* a pointer into it.  neighbor_manager_get and neighbor_manager_get_by_mac *)
(* search under neighbor_mutex and return &neighbor_table[i]; the caller    *)
(* reads through the pointer after the mutex is given back.  Three tasks:   *)
(* the BLE host (beacons), the Wi-Fi task (esp_now_send_cb) and the state   *)
(* machine task (cleanup, the member's re-election check).  A MAC stands    *)
(* for its node id.  Slots at and after neighbor_count keep what was last   *)
(* written to them.                                                         *)

PtrNodes == {200, 300}
PtrStep  == NEIGHBOR_TIMEOUT_MS \div 2

\* neighbor_table[0 .. neighbor_count)
NbrLive(m) == SubSeq(m.neighbor_table, 1, m.neighbor_count)

\* the array after an operation left tbl in its first Len(tbl) slots
NbrStore(m, tbl) ==
  [m EXCEPT !.neighbor_table = tbl \o SubSeq(@, Len(tbl) + 1, PtrSlots),
            !.neighbor_count = Len(tbl)]

PtrFrame ==
  UNCHANGED <<smVars, bleVars, tableVars, envVars, replayVars, rxVars, elVars,
              schedVars, logVars, huf, upt, weight_log, snap, ch_conflict>>

\* BLE host task: neighbor_manager_update for a beacon of node id
PtrBeacon(id, is_ch, battery) ==
  /\ nbr.beacons < MaxPtrBeacons
  /\ nbr' = [NbrStore(nbr, neighbor_manager_update(NbrLive(nbr), now, id, -60, 800000,
                                                    battery, 9000, 9000, is_ch, 0))
               EXCEPT !.beacons = @ + 1]
  /\ UNCHANGED now /\ PtrFrame

\* state machine task: neighbor_manager_cleanup_stale, between its other calls
PtrCleanup ==
  /\ nbr.hc.pc = "idle"
  /\ neighbor_manager_cleanup_stale(NbrLive(nbr), now) # NbrLive(nbr)
  /\ nbr' = NbrStore(nbr, neighbor_manager_cleanup_stale(NbrLive(nbr), now))
  /\ UNCHANGED now /\ PtrFrame

\* election_check_reelection_needed of a member: neighbor_manager_get_current_ch
\* and neighbor_manager_get(current_ch)
PtrHealthGet ==
  LET current_ch == neighbor_manager_get_current_ch(NbrLive(nbr), now)
      ch_entry   == FindEntry(NbrLive(nbr), current_ch)
  IN
  /\ nbr.hc.pc = "idle"
  /\ nbr.calls < MaxPtrCalls
  /\ current_ch # 0
  /\ nbr' = [nbr EXCEPT !.calls = @ + 1,
                        !.hc = [pc |-> "found", looked_up |-> current_ch,
                                ptr |-> ch_entry]]
  /\ UNCHANGED now /\ PtrFrame

\* "ch_entry->battery < BATTERY_LOW_THRESHOLD", "ch_entry->trust < TRUST_FLOOR",
\* "ch_entry->link_quality < LINK_QUALITY_FLOOR"
PtrHealthRead ==
  LET e == nbr.neighbor_table[nbr.hc.ptr] IN
  /\ nbr.hc.pc = "found"
  /\ nbr' = [nbr EXCEPT
        !.hc = [pc |-> "idle", looked_up |-> 0, ptr |-> 0],
        !.last_hc = [valid |-> TRUE, looked_up |-> nbr.hc.looked_up,
                     read_from |-> e.node_id,
                     reelect |-> \/ e.battery < BATTERY_LOW_THRESHOLD
                                 \/ e.trust < TRUST_FLOOR
                                 \/ e.link_quality < LINK_QUALITY_FLOOR]]
  /\ UNCHANGED now /\ PtrFrame

\* Wi-Fi task, esp_now_send_cb: neighbor_manager_get_by_mac(mac_addr)
PtrCbLookup(id) ==
  /\ nbr.cb.pc = "idle"
  /\ nbr.calls < MaxPtrCalls
  /\ FindEntry(NbrLive(nbr), id) # 0
  /\ nbr' = [nbr EXCEPT !.calls = @ + 1,
                        !.cb = [pc |-> "found", looked_up |-> id,
                                ptr |-> FindEntry(NbrLive(nbr), id)]]
  /\ UNCHANGED now /\ PtrFrame

\* "neighbor_manager_update_trust(n->node_id, status == ESP_NOW_SEND_SUCCESS)"
PtrCbUpdate(success) ==
  LET node_id == nbr.neighbor_table[nbr.cb.ptr].node_id IN
  /\ nbr.cb.pc = "found"
  /\ nbr' = [NbrStore(nbr, neighbor_manager_update_trust(NbrLive(nbr), node_id, success))
               EXCEPT !.cb = [pc |-> "idle", looked_up |-> 0, ptr |-> 0],
                      !.last_cb = [valid |-> TRUE, looked_up |-> nbr.cb.looked_up,
                                   updated |-> node_id,
                                   present |-> FindEntry(NbrLive(nbr), node_id) # 0]]
  /\ UNCHANGED now /\ PtrFrame

\* time passes between the calls, not inside one
PtrAdvance ==
  /\ now + PtrStep <= PtrMaxTime
  /\ nbr.hc.pc = "idle" /\ nbr.cb.pc = "idle"
  /\ now' = now + PtrStep
  /\ UNCHANGED nbr /\ PtrFrame

InitPtr ==
  /\ now = 0
  /\ boot_at = [n \in Node |-> IF n = SELF THEN 0 ELSE -1]
  /\ SmInit /\ BleInit /\ TableInit /\ EnvInit /\ ReplayInit
  /\ RxInit /\ ElInit /\ SchedInit /\ CompInit

NextPtr ==
  \/ \E id \in PtrNodes, is_ch \in BOOLEAN, battery \in {1000, 9000} :
        PtrBeacon(id, is_ch, battery)
  \/ PtrCleanup
  \/ PtrHealthGet
  \/ PtrHealthRead
  \/ \E id \in PtrNodes : PtrCbLookup(id)
  \/ \E success \in BOOLEAN : PtrCbUpdate(success)
  \/ PtrAdvance

SpecPtr == InitPtr /\ [][NextPtr]_vars

\* C32 (as stated): a member's health check of its CH and a delivery-result
\* trust update act on the data of the node that was looked up, under any
\* interleaving with beacon updates and the cleanup of stale entries.
LookedUpNodeIsUsed ==
  /\ nbr.last_hc.valid => nbr.last_hc.read_from = nbr.last_hc.looked_up
  /\ nbr.last_cb.valid => nbr.last_cb.updated = nbr.last_cb.looked_up

\* C32: what holds: the health check, which runs in the task that also runs
\* the cleanup, reads the entry of the node it looked up.
HealthCheckReadsLookedUp ==
  nbr.last_hc.valid => nbr.last_hc.read_from = nbr.last_hc.looked_up

\* ---------------------------------------------------------------------------
\* The neighbor table behind neighbor_mutex: the BLE host task stores beacons
\* with neighbor_manager_update while state_machine_task runs an election.
\* A task that finds the mutex taken waits for it, 100 ms at most.

SnapNodes    == {200, 300}
SnapReadings == { <<-60, 9000, 9000, 9000>>, <<-60, 1000, 7526, 5000>> }

\* neighbor_manager_get_all: a copy of the first max_count entries when the
\* mutex was taken, and count 0 when the wait for it timed out
neighbor_manager_get_all(tbl, max_count, taken) ==
  IF taken THEN SubSeq(tbl, 1, IF Len(tbl) < max_count THEN Len(tbl) ELSE max_count)
  ELSE <<>>

SnapFrame ==
  UNCHANGED <<now, smVars, bleVars, tableVars, envVars, replayVars, rxVars, elVars,
              schedVars, logVars, huf, upt, weight_log, nbr, ch_conflict>>

\* BLE host task: neighbor_manager_update takes the mutex for a beacon
SnapBleTake(id, r) ==
  /\ snap.beacons < MaxSnapBeacons
  /\ snap.pending = <<>>
  /\ snap.neighbor_mutex = "free"
  /\ snap' = [snap EXCEPT !.neighbor_mutex = "ble", !.pending = <<id, r>>,
                          !.beacons = @ + 1]
  /\ SnapFrame

\* BLE host task: the entry is written and the mutex given back
SnapBleStore ==
  /\ snap.pending # <<>>
  /\ LET id  == snap.pending[1]
         r   == snap.pending[2]
         tbl == neighbor_manager_update(snap.neighbor_table, now, id, r[1], 0,
                                        r[2], r[3], r[4], FALSE, 0)
     IN snap' = [snap EXCEPT !.neighbor_table = tbl, !.neighbor_mutex = "free",
                             !.pending = <<>>,
                             !.existed = IF snap.el = "idle" THEN @ ELSE @ \cup {tbl}]
  /\ SnapFrame

\* state_machine_task: election_run_stellar reaches neighbor_manager_get_all
SnapElCall ==
  /\ snap.runs < MaxSnapRuns
  /\ snap.el = "idle"
  /\ snap' = [snap EXCEPT !.el = "get_all", !.runs = @ + 1,
                          !.existed = {snap.neighbor_table}]
  /\ SnapFrame

\* xSemaphoreTake succeeds: the copy is made and the mutex given back
SnapElCopy ==
  /\ snap.el = "get_all"
  /\ snap.neighbor_mutex = "free"
  /\ snap' = [snap EXCEPT !.el = "copied", !.timed_out = FALSE,
                !.copy = neighbor_manager_get_all(snap.neighbor_table, MAX_NEIGHBORS, TRUE)]
  /\ SnapFrame

\* xSemaphoreTake returns pdFALSE: the holder kept the mutex for the 100 ms
SnapElTimeout ==
  /\ snap.el = "get_all"
  /\ snap.neighbor_mutex # "free"
  /\ snap' = [snap EXCEPT !.el = "copied", !.timed_out = TRUE,
                !.copy = neighbor_manager_get_all(snap.neighbor_table, MAX_NEIGHBORS, FALSE)]
  /\ SnapFrame

\* the rest of election_run_stellar: candidates from the copy, the winner
SnapElDecide ==
  /\ snap.el = "copied"
  /\ snap' = [snap EXCEPT !.el = "idle", !.copy = <<>>, !.existed = {},
                !.timed_out = FALSE,
                !.last = [valid |-> TRUE, used |-> snap.copy, existed |-> snap.existed,
                          timed_out |-> snap.timed_out,
                          winner |-> election_run(SELF, Healthy, ElectionNow,
                                                  snap.copy)]]
  /\ SnapFrame

InitSnap ==
  /\ now = 0
  /\ boot_at = [n \in Node |-> IF n = SELF THEN 0 ELSE -1]
  /\ SmInit /\ BleInit /\ TableInit /\ EnvInit /\ ReplayInit
  /\ RxInit /\ ElInit /\ SchedInit /\ CompInit

NextSnap ==
  \/ \E id \in SnapNodes, r \in SnapReadings : SnapBleTake(id, r)
  \/ SnapBleStore
  \/ SnapElCall
  \/ SnapElCopy
  \/ SnapElTimeout
  \/ SnapElDecide

SpecSnap == InitSnap /\ [][NextSnap]_vars

\* C33 (as stated): the table an election run decides on is a state the
\* neighbor table was in at some instant of the run, whatever the BLE host
\* task does with the lock meanwhile.
ElectionUsesExistingTable ==
  snap.last.valid => snap.last.used \in snap.last.existed

\* C33: what holds: a run whose wait for the mutex did not time out decides
\* on a state the table was in during the run.
ElectionCopyIsAtomic ==
  (snap.last.valid /\ ~snap.last.timed_out) => snap.last.used \in snap.last.existed


\* C35: the tick in which cluster head n, with no trigger of its own, finds a
\* CH neighbor to yield to (election.c:533-575)
ChConflictYield(n) ==
  /\ tick_info'[n] # tick_info[n]
  /\ tick_info'[n].st = STATE_CH
  /\ g_is_ch[n]
  /\ current_metrics[n].battery >= BATTERY_LOW_THRESHOLD
  /\ current_metrics[n].trust >= TRUST_FLOOR
  /\ current_metrics[n].link_quality >= LINK_QUALITY_FLOOR
  /\ ConflictScan(neighbor_table[n], n, CompositeScore(n), 1)

\* C35 (as stated): a cluster head that gives up its role because of a CH
\* conflict becomes Member, not Candidate.
ConflictYieldBecomesMember ==
  [][\A n \in Node : ChConflictYield(n) => tick_info'[n].target = STATE_MEMBER]_vars

\* C35: what holds: it becomes Member when a CH neighbor qualifies as current
\* CH, and Candidate otherwise.
ConflictYieldFollowsCurrentCh ==
  [][\A n \in Node : ChConflictYield(n) =>
        tick_info'[n].target =
          IF neighbor_manager_get_current_ch(neighbor_table[n], now) # 0
            THEN STATE_MEMBER ELSE STATE_CANDIDATE]_vars

\* ---------------------------------------------------------------------------
\* Two cluster heads in radio range of each other: each has the other's last
\* beacon in its table, and each runs election_check_reelection_needed.

ConflictIds      == {100, 200}
ConflictProfiles == {Healthy, Weak, Veteran}
ConflictUptimes  == {17000, 60000}
ConflictNow      == 60 * Quantum   \* the instant of both checks

\* the entry that a CH beacon of a node with metrics m and uptime t leaves
ChBeaconEntry(id, m, t) ==
  NewEntry(ConflictNow, id, -60, metrics_compute_stellar_score(m, t), m.battery,
           m.trust, m.link_quality, TRUE, 0)

\* a third node heard by a cluster head: none, or a beacon of node 50 or 300
ThirdParties ==
  {<<>>} \cup
  { <<[ChBeaconEntry(id, m, 17000) EXCEPT !.is_ch = c]>> :
       id \in {50, 300}, m \in {Weak, Veteran}, c \in BOOLEAN }

ConflictSide(id, m, t, other, third, first) ==
  [ id |-> id, m |-> m, score |-> metrics_compute_stellar_score(m, t),
    neighbors |-> IF first THEN <<other>> \o third ELSE third \o <<other>>,
    checked |-> FALSE, yields |-> FALSE ]

ConflictInputs ==
  { [ stage |-> "conflict",
      a |-> ConflictSide(100, ma, ta, ChBeaconEntry(200, mb, tb), xa, first),
      b |-> ConflictSide(200, mb, tb, ChBeaconEntry(100, ma, ta), xb, first) ] :
      ma \in ConflictProfiles, mb \in ConflictProfiles,
      ta \in ConflictUptimes, tb \in ConflictUptimes,
      xa \in ThirdParties, xb \in ThirdParties, first \in BOOLEAN }

ConflictFrame ==
  UNCHANGED <<now, smVars, bleVars, tableVars, envVars, replayVars, rxVars, elVars,
              schedVars, logVars, huf, upt, weight_log, nbr, snap>>

ConflictChecked(side) ==
  [ side EXCEPT !.checked = TRUE,
      !.yields = election_check_reelection_needed(TRUE, side.id, side.m, side.score,
                                                  side.neighbors, ConflictNow) ]

\* the tick of the first cluster head: election_check_reelection_needed
ConflictCheckA ==
  /\ ch_conflict.stage = "conflict" /\ ~ch_conflict.a.checked
  /\ ch_conflict' = [ch_conflict EXCEPT !.a = ConflictChecked(ch_conflict.a)]
  /\ ConflictFrame

\* the tick of the second cluster head
ConflictCheckB ==
  /\ ch_conflict.stage = "conflict" /\ ~ch_conflict.b.checked
  /\ ch_conflict' = [ch_conflict EXCEPT !.b = ConflictChecked(ch_conflict.b)]
  /\ ConflictFrame

InitConflict ==
  /\ now = 0
  /\ boot_at = [n \in Node |-> IF n = SELF THEN 0 ELSE -1]
  /\ SmInit /\ BleInit /\ TableInit /\ EnvInit /\ ReplayInit
  /\ RxInit /\ ElInit /\ SchedInit /\ LogInit
  /\ huf = HufIdle /\ upt = UptimeIdle /\ weight_log = NoWeightUpdate
  /\ nbr = NbrIdle /\ snap = SnapIdle
  /\ ch_conflict \in ConflictInputs

NextConflict == ConflictCheckA \/ ConflictCheckB

SpecConflict == InitConflict /\ [][NextConflict]_vars

BothChecked == ch_conflict.stage = "conflict" /\ ch_conflict.a.checked /\ ch_conflict.b.checked

\* the CH neighbors of a side other than the cluster head it is in conflict with
OtherChs(side, peer) ==
  SelectSeq(side.neighbors, LAMBDA e : e.node_id # peer /\ e.is_ch /\ e.verified)

CycleEntry(k, rising) ==
  PeerEntry(100 + 100 * k, <<-60, 9000, 9000, IF rising THEN 1000 * (k - 1)
                                                  ELSE 1000 * (10 - k)>>)

\* n neighbors of different priorities, node 200 the lowest or the highest of
\* them, or three neighbors of one priority
CycleTables ==
  { [k \in 1..n |-> CycleEntry(k, rising)] : n \in 1..MAX_NEIGHBORS, rising \in BOOLEAN }
    \cup { [k \in 1..3 |-> [CycleEntry(k, TRUE) EXCEPT !.link_quality = 5000]] }

InitCycle ==
  /\ now = 0
  /\ boot_at = [n \in Node |-> 0]
  /\ SmInit /\ BleInit /\ EnvInit /\ ReplayInit /\ ExtInit
  /\ neighbor_table \in {[n \in Node |-> IF n = SELF THEN t ELSE <<>>] : t \in CycleTables}
  /\ ch_result = 0
  /\ ch_fresh = FALSE
  /\ trust_updates = 0

SpecCycle == InitCycle /\ [][NextSched]_vars

\* the windows of two schedules have an instant in common
SlotsOverlap(s1, s2) ==
  SlotStart(s1) < SlotEnd(s2) /\ SlotStart(s2) < SlotEnd(s1)

\* no two messages of a round that go to different members overlap
RoundDisjoint(msgs) ==
  \A i, j \in 1..Len(msgs) :
     msgs[i].to # msgs[j].to => ~SlotsOverlap(msgs[i], msgs[j])

\* the step in which the CH issues the round after sched_round
NextRoundIssued ==
  sched_round.count > 0 /\ sched_round'.count = sched_round.count + 1

SlotsEndBeforeNextRound ==
  [][NextRoundIssued =>
       \A i \in 1..Len(sched_round.msgs) : SlotEnd(sched_round.msgs[i]) <= now]_vars

\* C37: what holds: the slots with index up to 4 of a round have ended when
\* the next round is issued.
FirstFiveSlotsEnd ==
  [][NextRoundIssued =>
       \A i \in 1..Len(sched_round.msgs) :
          sched_round.msgs[i].slot_index <= 4 => SlotEnd(sched_round.msgs[i]) <= now]_vars

\* the step in which node n enters STATE_CH
EntersCh(n) == g_current_state'[n] = STATE_CH /\ g_current_state[n] # STATE_CH

\* the tick that is making the transition ran an election that n won
WonElection(n) ==
  tick_info[n].st = STATE_CANDIDATE /\ tick_info[n].ran /\ tick_info[n].winner = n

\* C38 (as stated): a node enters CH only when the election it just ran
\* returned its own id, or on return from a UAV onboarding that it entered
\* while it was CH.
ChOnlyByElection ==
  [][\A n \in Node : EntersCh(n) =>
        \/ WonElection(n)
        \/ g_current_state[n] = STATE_UAV_ONBOARDING /\ became[n].uav_from = STATE_CH]_vars

\* C38: what holds: a node enters CH only from an election it won or from
\* UAV onboarding, whatever state it was in when the onboarding began.
ChByElectionOrOnboarding ==
  [][\A n \in Node : EntersCh(n) =>
        \/ WonElection(n)
        \/ g_current_state[n] = STATE_UAV_ONBOARDING]_vars

\* the node to whose MAC the MEMBER case sends the payload, in a tick that has
\* current_ch from neighbor_manager_get_current_ch and may send; 0: no send
\* (state_machine.c:435-438)
MemberSendDest(tbl, now_ms, current_ch) ==
  IF current_ch # 0 THEN neighbor_manager_get_ch_mac(tbl, now_ms) ELSE 0

\* C39 (as stated): the payload of a member goes to the node that
\* current_ch() returned in the tick, also with several CH neighbors.
DataGoesToCurrentCh ==
  (ch_fresh /\ MemberSendDest(neighbor_table[SELF], now, ch_result) # 0)
    => MemberSendDest(neighbor_table[SELF], now, ch_result) = ch_result

\* C39: what holds: the payload goes to a neighbor whose entry is a verified
\* CH with a fresh announcement.
DataGoesToSomeCh ==
  LET tbl  == neighbor_table[SELF]
      dest == MemberSendDest(tbl, now, ch_result) IN
  (ch_fresh /\ dest # 0) =>
     \E i \in 1..Len(tbl) :
        /\ tbl[i].node_id = dest /\ tbl[i].is_ch /\ tbl[i].verified
        /\ now - tbl[i].ch_announce_timestamp < CH_BEACON_TIMEOUT_MS

\* the ids of the lines that the writes so far put into the files
WrittenIds == {log_hist.written[i] : i \in 1..Len(log_hist.written)}

\* no line has been written twice
NoLineWrittenTwice ==
  \A i, j \in 1..Len(log_hist.written) :
     log_hist.written[i] = log_hist.written[j] => i = j

\* the step "s_bb.len = 0" of task t's flush
FlushClears(t) ==
  log_task[t].stage = "flush_clear" /\ log_task'[t].stage # "flush_clear"

\* C40 (as stated): with appends and flushes interleaved, no accepted line is
\* written twice and none is lost: the lines that a flush removes from the
\* buffer are lines that have been written.
AcceptedLinesWrittenOnce ==
  /\ []NoLineWrittenTwice
  /\ [][\A t \in LogTask : FlushClears(t) =>
           \A i \in 1..Len(s_bb.lines) : s_bb.lines[i] \in WrittenIds]_vars

\* C40: what holds: no line is written twice, and the lines that were in the
\* buffer when the flush made its write are all in that write.
WrittenLinesWereBuffered ==
  /\ []NoLineWrittenTwice
  /\ [][\A t \in LogTask :
           (log_task[t].stage = "flush_write" /\ log_task'[t].stage # "flush_write")
             => \A i \in 1..Len(s_bb.lines) : s_bb.lines[i] \in
                   {log_hist'.written[k] : k \in 1..Len(log_hist'.written)}]_vars

====
